---------------------------- MODULE Spec2Model ----------------------------
(***************************************************************************)
(* A model of the storage and memory substrate of hangpark/pintos:        *)
(*   filesys/cache.c     the buffer cache                                  *)
(*   filesys/free-map.c  the free-sector map                               *)
(*   filesys/inode.c     the inode store                                   *)
(*   vm/frame.c, vm/page.c, vm/swap.c, userprog/syscall.c (mmap)           *)
(*                                                                         *)
(* Units.  A disk sector holds SIZE_BLOCK words; a word stands for one     *)
(* disk_sector_t (4 bytes), so DISK_SECTOR_SIZE = SIZE_BLOCK words and all *)
(* file lengths and offsets are counted in words.  A sector's content is a *)
(* sequence of integers.  The block counts of the inode (IND_BLOCK,        *)
(* DIND_BLOCK, NUM_ADDR, SIZE_BLOCK) and the cache size are scaled down.   *)
(***************************************************************************)
EXTENDS Integers, Sequences, FiniteSets, TLC

VARIABLES
    \* filesys/cache.c
    buffer_cache,       \* buffer_cache[1..BUFFER_CACHE_NUM]: the entries
    buffer_cache_pos,   \* clock position, 0..BUFFER_CACHE_NUM-1
    read_ahead_list,    \* queued read-ahead requests (sector numbers)
    read_ahead_sema,    \* read_ahead_sema: its value and its waiters
    disk,               \* filesys_disk: sector -> content
    \* observers of the cache specification
    written,            \* sector -> bytes of the most recent completed write
    lastRead,           \* the read that has just returned, or NoRead
    \* filesys/free-map.c, filesys/inode.c
    free_map,           \* sector -> BOOLEAN (TRUE: in use)
    free_map_file,      \* data sector of the free-map file, NULL before it opens
    open_inodes,        \* list of in-memory inodes (struct inode)
    panicked,           \* TRUE once an ASSERT/PANIC has stopped the kernel
    live,               \* inode sectors of the files that exist
    files,              \* openers: handle -> [inode, denied] (struct file)
    lastOp,             \* record of the last inode-level call and its result
    nops,               \* number of file-system calls made so far
    \* concurrent inode_open (userprog/syscall.c, userprog/process.c)
    filesys_lock,       \* holder of filesys_lock, or NoThread
    opener,             \* thread -> [pc, sector, id]
    \* the mutexes and the threads that take them
    locks,              \* mutex -> its holder, or NoThread
    threads,            \* thread -> where it is in the code that locks
    \* vm/
    sptes,              \* supplemental page tables: process -> upage -> SPTE
    pagedir,            \* page directories: process -> upage -> page-table entry
    frame_table,        \* list of frames [kpage, suppl_pte]
    frame_table_pos,    \* clock position: an index of frame_table, or 0 (tail)
    user_pool,          \* set of free user pages (palloc)
    frames,             \* kpage -> page content
    swap_table,         \* slot -> BOOLEAN (TRUE: empty), as in vm/swap.c
    swap_disk,          \* slot -> page content
    mfile,              \* the mapped file: page index -> page content
    mmaps,              \* process -> its mmap region, or NoMap
    loading,            \* process -> page load in progress, NoLoad, or
                        \* Exiting between the two halves of process_exit
    vmlog,              \* what each process wrote, and what was unmapped
    vmops,              \* number of steps the processes have taken
    \* userprog/process.c, userprog/syscall.c
    child_list,         \* the children of a process: list of process_info
    child_procs,        \* pid -> the child as a process: where it is, its info
    waiter,             \* the parent: where it is, what its last call returned
    proc_mmap           \* process -> [mmap_list, mapid_next, file handles]

cacheVars == <<buffer_cache, buffer_cache_pos, read_ahead_list, read_ahead_sema,
               disk>>
obsVars   == <<written, lastRead>>
inodeVars == <<free_map, free_map_file, open_inodes, panicked, live, files, lastOp, nops>>
openVars  == <<filesys_lock, opener, locks, threads>>
procVars  == <<child_list, child_procs, waiter, proc_mmap>>
vmVars    == <<sptes, pagedir, frame_table, frame_table_pos, user_pool, frames,
               swap_table, swap_disk, mfile, mmaps, loading, vmlog, vmops>>
vars      == <<cacheVars, obsVars, inodeVars, openVars, vmVars, procVars>>

---------------------------------------------------------------------------
(* Bounds and scaled-down program constants.                               *)

\* #define BUFFER_CACHE_NUM 64, scaled down so that evictions happen.
BUFFER_CACHE_NUM == 2
\* #define SIZE_BLOCK (DISK_SECTOR_SIZE / sizeof (disk_sector_t)) = 128, scaled.
SIZE_BLOCK == 2
\* One sector in words.
DISK_SECTOR_SIZE == SIZE_BLOCK
\* disk_size (filesys_disk): number of sectors of the file-system disk.
NumSectors == 20
\* Sectors the cache specification reads and writes.
NumCacheSectors == 3
\* Largest data word a client writes.
MaxWord == 1

Sectors == 0 .. NumSectors - 1
Zeros   == [k \in 1 .. DISK_SECTOR_SIZE |-> 0]
NoRead  == [sector |-> -1, offset |-> 0, data |-> <<>>]
NULL    == 0

\* sema_init (threads/synch.c): a semaphore is its value and the threads
\* that sema_down has blocked on it.
sema_init(value) == [value |-> value, waiters |-> <<>>]

\* Let(v, LAMBDA x : e) is e with x standing for the value v.  The test
\* makes TLC evaluate v once, before e, whatever e does with x.
Let(v, F(_)) == IF v = v THEN F(v) ELSE F(v)

Min(a, b) == IF a < b THEN a ELSE b
Max(a, b) == IF a < b THEN b ELSE a

---------------------------------------------------------------------------
(* filesys/cache.c.  The cache state is threaded through the operators as  *)
(* a record st with fields bc (the entries), pos (the clock position) and  *)
(* disk; the file-system operators add fm (the free map), fmfile and panic. *)
(* Every public operation runs under buffer_cache_lock from its first to   *)
(* its last statement, so each is one atomic step.                         *)

\* struct buffer_cache_entry, zero-initialised static storage.
EmptyEntry ==
    [usebit |-> FALSE, sector |-> 0, dirty |-> FALSE, accessed |-> FALSE,
     data |-> Zeros]

\* The first SIZE_BLOCK words of a sector (shorter content is zero-padded):
\* a sector read into a struct of SIZE_BLOCK words.
AsBlock(c) == [k \in 1 .. SIZE_BLOCK |-> IF k <= Len(c) THEN c[k] ELSE 0]

\* buffer_cache_find: index of the in-use entry holding SECTOR, or NULL.
buffer_cache_find(bc, sector) ==
    LET hit == {i \in 1 .. BUFFER_CACHE_NUM :
                    bc[i].usebit /\ bc[i].sector = sector}
    IN  IF hit = {} THEN NULL
        ELSE CHOOSE i \in hit : \A j \in hit : i <= j

\* buffer_cache_get_empty: index of the first entry not in use, or NULL.
buffer_cache_get_empty(bc) ==
    LET free == {i \in 1 .. BUFFER_CACHE_NUM : ~bc[i].usebit}
    IN  IF free = {} THEN NULL
        ELSE CHOOSE i \in free : \A j \in free : i <= j

\* buffer_cache_to_evict: the loop never moves buffer_cache_pos, so it clears
\* the accessed bit of the entry at the position and then takes that entry.
buffer_cache_to_evict(st) ==
    LET i == st.pos + 1
    IN  [idx |-> i,
         st  |-> [st EXCEPT !.bc[i].accessed = FALSE,
                            !.pos = (st.pos + 1) % BUFFER_CACHE_NUM]]

\* disk_write (filesys_disk, entry->sector, entry->data); the disk driver
\* panics on a sector past the end of the disk.
DiskWriteEntry(st, i) ==
    IF st.bc[i].sector \in Sectors
    THEN [st EXCEPT !.disk[st.bc[i].sector] = st.bc[i].data]
    ELSE [st EXCEPT !.panic = TRUE]

\* disk_read (filesys_disk, sector, entry->data) into entry i.
DiskReadEntry(st, i, sector) ==
    IF sector \in Sectors
    THEN [st EXCEPT !.bc[i].data = st.disk[sector], !.bc[i].dirty = FALSE]
    ELSE [st EXCEPT !.bc[i].dirty = FALSE, !.panic = TRUE]

\* buffer_cache_fetch with a victim that is not written back (lost update).
buffer_cache_fetch_NoWriteBack(st, sector, read) ==
        Let(buffer_cache_find(st.bc, sector), LAMBDA found :
        Let(buffer_cache_get_empty(st.bc), LAMBDA empty :
        Let(buffer_cache_to_evict(st), LAMBDA ev :
    LET i     == IF empty # NULL THEN empty ELSE ev.idx
        s1    == IF empty # NULL THEN [st EXCEPT !.bc[i].usebit = TRUE]
                 ELSE ev.st
    IN
        Let(IF read THEN DiskReadEntry(s1, i, sector) ELSE s1, LAMBDA s2 :
        IF found # NULL THEN [idx |-> found, st |-> st]
        ELSE [idx |-> i, st |-> [s2 EXCEPT !.bc[i].sector = sector]]))))

\* buffer_cache_fetch that never looks the sector up first.
buffer_cache_fetch_NoFind(st, sector, read) ==
        Let(buffer_cache_get_empty(st.bc), LAMBDA empty :
        Let(buffer_cache_to_evict(st), LAMBDA ev :
    LET i     == IF empty # NULL THEN empty ELSE ev.idx
    IN
             Let(IF empty # NULL THEN [st EXCEPT !.bc[i].usebit = TRUE]
                 ELSE IF ev.st.bc[i].dirty THEN DiskWriteEntry(ev.st, i)
                 ELSE ev.st, LAMBDA s1 :
        Let(IF read THEN DiskReadEntry(s1, i, sector) ELSE s1, LAMBDA s2 :
        [idx |-> i, st |-> [s2 EXCEPT !.bc[i].sector = sector]]))))

\* buffer_cache_fetch: the entry of SECTOR, fetched on a miss into an empty
\* entry or into the clock's victim (written back first if dirty).  With
\* read = FALSE the entry keeps its previous bytes and dirty bit.
buffer_cache_fetch(st, sector, read) ==
        Let(buffer_cache_find(st.bc, sector), LAMBDA found :
        Let(buffer_cache_get_empty(st.bc), LAMBDA empty :
        Let(buffer_cache_to_evict(st), LAMBDA ev :
    LET i     == IF empty # NULL THEN empty ELSE ev.idx
    IN
             Let(IF empty # NULL THEN [st EXCEPT !.bc[i].usebit = TRUE]
                 ELSE IF ev.st.bc[i].dirty THEN DiskWriteEntry(ev.st, i)
                 ELSE ev.st, LAMBDA s1 :
        Let(IF read THEN DiskReadEntry(s1, i, sector) ELSE s1, LAMBDA s2 :
        IF found # NULL THEN [idx |-> found, st |-> st]
        ELSE [idx |-> i, st |-> [s2 EXCEPT !.bc[i].sector = sector]])))))

\* buffer_cache_write that leaves the dirty bit as the fetch left it.
buffer_cache_write_KeepDirty(st, sector, data) ==
        Let(buffer_cache_fetch(st, sector, FALSE), LAMBDA f :
        [f.st EXCEPT !.bc[f.idx].data = data,
                     !.bc[f.idx].accessed = TRUE])

\* buffer_cache_write: overwrite the whole cached sector.
buffer_cache_write(st, sector, data) ==
        Let(buffer_cache_fetch(st, sector, FALSE), LAMBDA f :
        [f.st EXCEPT !.bc[f.idx].data = data,
                     !.bc[f.idx].accessed = TRUE,
                     !.bc[f.idx].dirty = TRUE])

\* buffer_cache_memcpy: copy SIZE words at OFFSET out of the cached sector.
\* The result is [st, out].
buffer_cache_memcpy(st, sector, offset, size) ==
        Let(buffer_cache_fetch(st, sector, TRUE), LAMBDA f :
        [st  |-> [f.st EXCEPT !.bc[f.idx].accessed = TRUE],
         out |-> [k \in 1 .. size |->
                    IF offset + k <= Len(f.st.bc[f.idx].data)
                    THEN f.st.bc[f.idx].data[offset + k] ELSE 0]])

\* buffer_cache_read: the whole sector, exactly as stored.
buffer_cache_read(st, sector) ==
        Let(buffer_cache_fetch(st, sector, TRUE), LAMBDA f :
        [st  |-> [f.st EXCEPT !.bc[f.idx].accessed = TRUE],
         out |-> f.st.bc[f.idx].data])

\* buffer_cache_read_at (declared in cache.h, called by inode.c).
buffer_cache_read_at(st, sector, offset, size) ==
    buffer_cache_memcpy(st, sector, offset, size)

\* NEW words laid over OLD from OFFSET on.
Overlay(old, new, offset) ==
    LET n == Max(Len(old), offset + Len(new))
    IN  SubSeq([k \in 1 .. n |->
                  IF k > offset /\ k <= offset + Len(new) THEN new[k - offset]
                  ELSE IF k <= Len(old) THEN old[k] ELSE 0], 1, n)

\* buffer_cache_write_at (declared in cache.h, called by inode.c; its body is
\* not in cache.c): copy_in of the specification, a fetch for read followed
\* by an overwrite of the sub-range, setting dirty and accessed.
buffer_cache_write_at(st, sector, data, offset) ==
        Let(buffer_cache_fetch(st, sector, TRUE), LAMBDA f :
        [f.st EXCEPT !.bc[f.idx].data =
                         Overlay(f.st.bc[f.idx].data, data, offset),
                     !.bc[f.idx].accessed = TRUE,
                     !.bc[f.idx].dirty = TRUE])

\* buffer_cache_remove: only a dirty entry is written back and released.
buffer_cache_remove(st, sector) ==
        Let(buffer_cache_find(st.bc, sector), LAMBDA i :
        IF i # NULL /\ st.bc[i].dirty
        THEN [DiskWriteEntry(st, i) EXCEPT !.bc[i].usebit = FALSE]
        ELSE st)

RECURSIVE FlushFrom(_, _)
FlushFrom(st, i) ==
    IF i > BUFFER_CACHE_NUM THEN st
    ELSE FlushFrom(IF st.bc[i].usebit /\ st.bc[i].dirty
                   THEN DiskWriteEntry(st, i) ELSE st, i + 1)

\* buffer_cache_done that marks the entries clean and writes none of them.
buffer_cache_done_NoWrite(st) ==
    [st EXCEPT !.bc = [i \in 1 .. BUFFER_CACHE_NUM |->
                          [st.bc[i] EXCEPT !.dirty = FALSE]]]

\* buffer_cache_done: write every in-use dirty entry to the disk.
buffer_cache_done(st) == FlushFrom(st, 1)

\* The bytes a read of SECTOR would return now: the cached copy, else the disk.
Logical(st, sector) ==
    LET i == buffer_cache_find(st.bc, sector)
    IN  IF i # NULL THEN st.bc[i].data ELSE st.disk[sector]

---------------------------------------------------------------------------
(* filesys/free-map.c                                                      *)

BITMAP_ERROR == -1
FREE_MAP_SECTOR == 0
ROOT_DIR_SECTOR == 1

\* The bitmap as the words bitmap_write stores in the free-map file.
BitmapImage(fm) == [k \in 1 .. NumSectors |-> IF fm[k - 1] THEN 1 ELSE 0]

\* bitmap_write (free_map, free_map_file): file_write_at on the free-map file,
\* which is one whole sector and is never write-denied nor extended, so the
\* write is one buffer_cache_write of its data sector and cannot fail.
bitmap_write(st) ==
    IF st.fmfile = NULL THEN st
    ELSE buffer_cache_write(st, st.fmfile, BitmapImage(st.fm))

\* bitmap_scan (free_map, 0, cnt, false): first run of CNT free sectors.
bitmap_scan(fm, cnt) ==
    LET runs == {s \in Sectors :
                    /\ s + cnt <= NumSectors
                    /\ \A k \in s .. s + cnt - 1 : ~fm[k]}
    IN  IF runs = {} THEN BITMAP_ERROR
        ELSE CHOOSE s \in runs : \A r \in runs : s <= r

\* free_map_allocate: the result is [st, ok, sector].
free_map_allocate(st, cnt) ==
        Let(bitmap_scan(st.fm, cnt), LAMBDA sector :
    LET marked == [st EXCEPT !.fm = [k \in Sectors |->
                                st.fm[k] \/ (sector <= k /\ k < sector + cnt)]]
    IN  IF sector = BITMAP_ERROR
        THEN [st |-> st, ok |-> FALSE, sector |-> BITMAP_ERROR]
        ELSE [st |-> bitmap_write(marked), ok |-> TRUE, sector |-> sector])

\* free_map_release: ASSERT (bitmap_all (free_map, sector, cnt)), then clear
\* the bits and persist.  A failed assertion panics the kernel.
free_map_release(st, sector, cnt) ==
    IF st.panic THEN st
    ELSE IF ~\A k \in sector .. sector + cnt - 1 : k \in Sectors /\ st.fm[k]
    THEN [st EXCEPT !.panic = TRUE]
    ELSE bitmap_write([st EXCEPT !.fm = [k \in Sectors |->
                          st.fm[k] /\ ~(sector <= k /\ k < sector + cnt)]])

RECURSIVE AllocHalving(_, _)
\* The loop of free_map_allocate_r: try SIZE, then halve until a run is found.
AllocHalving(st, size) ==
    IF size = 0 THEN [st |-> st, size |-> 0, sector |-> BITMAP_ERROR]
    ELSE     Let(free_map_allocate(st, size), LAMBDA a :
             IF a.ok THEN [st |-> a.st, size |-> size, sector |-> a.sector]
             ELSE AllocHalving(st, size \div 2))

\* free_map_allocate_r that gives up when its first request fails.
free_map_allocate_r_NoRetry(st, cnt, size) ==
    Let(free_map_allocate(st, Min(size, cnt)), LAMBDA a :
        IF a.ok /\ Min(size, cnt) > 0
        THEN [st |-> a.st, cnt |-> cnt - Min(size, cnt),
              size |-> Min(size, cnt), sector |-> a.sector]
        ELSE [st |-> st, cnt |-> cnt, size |-> 0, sector |-> BITMAP_ERROR])

\* free_map_allocate_r (&cnt, size, &sector): [st, cnt, size, sector].
free_map_allocate_r(st, cnt, size) ==
        Let(AllocHalving(st, Min(size, cnt)), LAMBDA r :
        [st |-> r.st, cnt |-> cnt - r.size, size |-> r.size,
         sector |-> r.sector])

\* Number of sectors marked in use.
UsedBits(fm) == Cardinality({s \in Sectors : fm[s]})


---------------------------------------------------------------------------
(* filesys/inode.c.  A disk inode is a record d = [sectors, length]; on    *)
(* disk it is the words of sectors, then length, then the magic number.    *)
(* The operators return the state they leave and, where the C function     *)
(* writes through a pointer to the disk inode, the disk inode as well.     *)

\* #define IND_BLOCK 12, DIND_BLOCK 14, NUM_ADDR 15: scaled to one direct
\* pointer, two indirect pointers and one doubly indirect pointer.
IND_BLOCK  == 1
DIND_BLOCK == 3
NUM_ADDR   == 4
INODE_MAGIC == 1229868868

\* Largest file: direct, indirect and doubly indirect sectors.
MaxFileSectors ==
    IND_BLOCK + (DIND_BLOCK - IND_BLOCK) * SIZE_BLOCK
      + (NUM_ADDR - DIND_BLOCK) * SIZE_BLOCK * SIZE_BLOCK

ZeroSecs(n) == SubSeq([k \in 1 .. n |-> 0], 1, n)

\* calloc (1, sizeof *disk_inode)
EmptyInodeDisk == [sectors |-> ZeroSecs(NUM_ADDR), length |-> 0]

\* The sector image of a disk inode, and a sector read back as a disk inode.
Image(d) == d.sectors \o <<d.length, INODE_MAGIC>>
FromImage(c) ==
    [sectors |-> [k \in 1 .. NUM_ADDR |-> IF k <= Len(c) THEN c[k] ELSE 0],
     length  |-> IF NUM_ADDR + 1 <= Len(c) THEN c[NUM_ADDR + 1] ELSE 0]

\* bytes_to_sectors: DIV_ROUND_UP (size, DISK_SECTOR_SIZE)
bytes_to_sectors(size) == (size + DISK_SECTOR_SIZE - 1) \div DISK_SECTOR_SIZE

size_min(s1, s2) == IF s1 < s2 THEN s1 ELSE s2

adjust_cnt(alloc, curr, cnt) ==
    IF alloc + cnt < curr THEN 0
    ELSE IF alloc < curr THEN alloc + cnt - curr
    ELSE cnt

RECURSIVE inode_release_at(_, _)
\* inode_release_at: free_map_release of each sector number in SECS, in order
\* (the caller's array entries become 0).
inode_release_at(st, secs) ==
    IF secs = <<>> THEN st
    ELSE inode_release_at(free_map_release(st, Head(secs), 1), Tail(secs))

\* The loop of inode_allocate_at without its buffer_cache_write of zeros:
\* the new sectors keep the bytes they held.
ZeroFill_Skip(st, sector, size) == st

RECURSIVE ZeroFill(_, _, _)
\* buffer_cache_write (temp_sector++, zeros) for SIZE consecutive sectors.
ZeroFill(st, sector, size) ==
    IF size = 0 THEN st
    ELSE ZeroFill(buffer_cache_write(st, sector, Zeros), sector + 1, size - 1)

RECURSIVE AllocAtLoop(_, _, _, _)
AllocAtLoop(st, cnt, size, got) ==
    IF cnt = 0 THEN [st |-> st, ok |-> TRUE, secs |-> got]
    ELSE     Let(free_map_allocate_r(st, cnt, size), LAMBDA r :
             IF r.size = 0
             THEN [st |-> inode_release_at(r.st, got), ok |-> FALSE,
                   secs |-> got]
             ELSE AllocAtLoop(ZeroFill(r.st, r.sector, r.size), r.cnt, r.size,
                              got \o [k \in 1 .. r.size |-> r.sector + k - 1]))

\* inode_allocate_at (sectorp, cnt): [st, ok, secs], secs being the sector
\* numbers stored at *sectorp ... on success; on failure what was allocated
\* has been released again.
inode_allocate_at(st, cnt) == AllocAtLoop(st, cnt, cnt, <<>>)

NoAlloc(st) == [st |-> st, ok |-> TRUE, secs |-> <<>>]

RECURSIVE RelDindInner(_, _, _, _, _, _, _, _)
RECURSIVE RelDindLoop(_, _, _, _, _, _)
RECURSIVE RelIndLoop(_, _, _, _, _, _)

\* inode_release_interval, the inner loop over the indirect blocks of doubly
\* indirect block i.  ind_pos is &temp_dind_block.sectors[i] for every j.
RelDindInner(st, d, i, j, alloc, curr, target, tdb) ==
    LET dind == d.sectors[DIND_BLOCK + i + 1]
    IN  IF j >= SIZE_BLOCK
        THEN RelDindLoop(free_map_release(st, dind, 1),
                         [d EXCEPT !.sectors[DIND_BLOCK + i + 1] = 0],
                         i + 1, alloc, curr, target)
        ELSE
              Let(buffer_cache_read(st, tdb[i + 1]), LAMBDA r :
          LET tib      == AsBlock(r.out)
              cnt_orig == size_min(target - alloc, SIZE_BLOCK)
          IN
              Let(adjust_cnt(alloc, curr, cnt_orig), LAMBDA cnt :
                      Let(inode_release_at(
                              r.st, SubSeq(tib, cnt_orig - cnt + 1, cnt_orig)), LAMBDA s1 :
              Let(free_map_release(s1, tdb[i + 1], 1), LAMBDA s2 :
              IF alloc + cnt_orig = target
              THEN [st |-> free_map_release(s2, dind, 1),
                    d  |-> [d EXCEPT !.sectors[DIND_BLOCK + i + 1] = 0]]
              ELSE RelDindInner(s2, d, i, j + 1, alloc + cnt_orig, curr,
                                target, [tdb EXCEPT ![i + 1] = 0])))))

\* inode_release_interval, the loop over the doubly indirect blocks.
RelDindLoop(st, d, i, alloc, curr, target) ==
    IF i >= NUM_ADDR - DIND_BLOCK THEN [st |-> st, d |-> d]
    ELSE     Let(buffer_cache_read(st, d.sectors[DIND_BLOCK + i + 1]), LAMBDA r :
             RelDindInner(r.st, d, i, 0, alloc, curr, target, AsBlock(r.out)))

\* inode_release_interval, the loop over the indirect blocks: the indirect
\* block itself is released whatever CURR_SECTORS is.
RelIndLoop(st, d, i, alloc, curr, target) ==
    IF i >= DIND_BLOCK - IND_BLOCK
    THEN RelDindLoop(st, d, 0, alloc, curr, target)
    ELSE
      LET ind      == d.sectors[IND_BLOCK + i + 1]
      IN
          Let(buffer_cache_read(st, ind), LAMBDA r :
      LET tib      == AsBlock(r.out)
          cnt_orig == size_min(target - alloc, SIZE_BLOCK)
      IN
          Let(adjust_cnt(alloc, curr, cnt_orig), LAMBDA cnt :
                  Let(inode_release_at(
                          r.st, SubSeq(tib, cnt_orig - cnt + 1, cnt_orig)), LAMBDA s1 :
          Let(free_map_release(s1, ind, 1), LAMBDA s2 :
      LET d1       == [d EXCEPT !.sectors[IND_BLOCK + i + 1] = 0]
      IN  IF alloc + cnt_orig = target THEN [st |-> s2, d |-> d1]
          ELSE RelIndLoop(s2, d1, i + 1, alloc + cnt_orig, curr, target)))))

\* inode_release_interval (disk_inode, curr_sectors): releases the sectors of
\* DISK_INODE from sector index CURR_SECTORS up to its length.  [st, d].
inode_release_interval(st, d, curr) ==
    LET target   == bytes_to_sectors(d.length)
        cnt_orig == size_min(target, IND_BLOCK)
    IN
        Let(adjust_cnt(0, curr, cnt_orig), LAMBDA cnt :
                Let(inode_release_at(
                        st, SubSeq(d.sectors, cnt_orig - cnt + 1, cnt_orig)), LAMBDA s1 :
                Let([d EXCEPT !.sectors = Overlay(d.sectors, ZeroSecs(cnt),
                                                  cnt_orig - cnt)], LAMBDA d1 :
        IF cnt_orig = target THEN [st |-> s1, d |-> d1]
        ELSE RelIndLoop(s1, d1, 0, cnt_orig, curr, target))))

\* inode_release (disk_inode)
inode_release(st, d) == inode_release_interval(st, d, 0)

\* The fail label of inode_allocate_interval: the length is set to what was
\* allocated so far and is left there; the sectors after CURR are released.
AllocFail(st, d, alloc, curr) ==
         Let(inode_release_interval(
                 st, [d EXCEPT !.length = alloc * DISK_SECTOR_SIZE], curr), LAMBDA r :
        [st |-> r.st, d |-> r.d, ok |-> FALSE])

RECURSIVE AllocDindInner(_, _, _, _, _, _, _, _, _)
RECURSIVE AllocDindLoop(_, _, _, _, _, _, _)
RECURSIVE AllocIndLoop(_, _, _, _, _, _, _)

\* inode_allocate_interval, the inner loop over the indirect blocks of doubly
\* indirect block i.  TDB is temp_dind_block, which the function never reads
\* from the disk: it starts as whatever the stack holds.  ind_pos is
\* &temp_dind_block.sectors[i], and the word stored in the doubly indirect
\* block is temp_dind_block.sectors[j].
AllocDindInner(st, d, i, j, alloc, curr, target, tdb, dcreated) ==
    LET dind == d.sectors[DIND_BLOCK + i + 1]
        undoDind == j = 0 /\ dcreated
    IN  IF j >= SIZE_BLOCK
        THEN AllocDindLoop(st, d, i + 1, alloc, curr, target, tdb)
        ELSE
          LET created == curr <= alloc
          IN
              Let(IF created THEN inode_allocate_at(st, 1) ELSE NoAlloc(st), LAMBDA a1 :
          LET tdb1 == IF created /\ a1.ok
                      THEN [tdb EXCEPT ![i + 1] = a1.secs[1]] ELSE tdb
              dz   == [d EXCEPT !.sectors[DIND_BLOCK + i + 1] = 0]
          IN  IF ~a1.ok
              THEN IF undoDind
                   THEN AllocFail(free_map_release(a1.st, dind, 1), dz,
                                  alloc, curr)
                   ELSE AllocFail(a1.st, d, alloc, curr)
              ELSE
                LET cnt_orig == size_min(target - alloc, SIZE_BLOCK)
                IN
                    Let(adjust_cnt(alloc, curr, cnt_orig), LAMBDA cnt :
                    Let(inode_allocate_at(a1.st, cnt), LAMBDA a2 :
                      Let(IF undoDind THEN free_map_release(a2.st, dind, 1)
                          ELSE a2.st, LAMBDA u1 :
                      Let(IF cnt > 0
                          THEN buffer_cache_write_at(a2.st, tdb1[i + 1],
                                                     a2.secs, cnt_orig - cnt)
                          ELSE a2.st, LAMBDA s3 :
                      Let(IF cnt > 0 /\ created
                          THEN buffer_cache_write_at(s3, dind,
                                                     <<tdb1[j + 1]>>, j)
                          ELSE s3, LAMBDA s4 :
                    IF ~a2.ok
                    THEN IF created
                         THEN AllocFail(free_map_release(u1, tdb1[i + 1], 1),
                                        IF undoDind THEN dz ELSE d,
                                        alloc, curr)
                         ELSE AllocFail(a2.st, d, alloc, curr)
                    ELSE IF alloc + cnt_orig = target
                    THEN [st |-> s4, d |-> d, ok |-> TRUE]
                    ELSE AllocDindInner(s4, d, i, j + 1, alloc + cnt_orig,
                                        curr, target, tdb1, dcreated)))))))

\* inode_allocate_interval, the loop over the doubly indirect blocks; when it
\* ends without reaching TARGET the function falls into the fail label.
AllocDindLoop(st, d, i, alloc, curr, target, tdb) ==
    IF i >= NUM_ADDR - DIND_BLOCK THEN AllocFail(st, d, alloc, curr)
    ELSE
      LET dcreated == curr <= alloc
      IN
          Let(IF dcreated THEN inode_allocate_at(st, 1) ELSE NoAlloc(st), LAMBDA a :
      LET d1 == IF dcreated /\ a.ok
                THEN [d EXCEPT !.sectors[DIND_BLOCK + i + 1] = a.secs[1]]
                ELSE d
      IN  IF ~a.ok THEN AllocFail(a.st, d, alloc, curr)
          ELSE AllocDindInner(a.st, d1, i, 0, alloc, curr, target, tdb,
                              dcreated))

\* inode_allocate_interval, the loop over the indirect blocks.
AllocIndLoop(st, d, i, alloc, curr, target, tdb) ==
    IF i >= DIND_BLOCK - IND_BLOCK
    THEN AllocDindLoop(st, d, 0, alloc, curr, target, tdb)
    ELSE
      LET created == curr <= alloc
      IN
          Let(IF created THEN inode_allocate_at(st, 1) ELSE NoAlloc(st), LAMBDA a1 :
      LET d1 == IF created /\ a1.ok
                THEN [d EXCEPT !.sectors[IND_BLOCK + i + 1] = a1.secs[1]]
                ELSE d
      IN
          Let(d1.sectors[IND_BLOCK + i + 1], LAMBDA ind :
          IF ~a1.ok THEN AllocFail(a1.st, d, alloc, curr)
          ELSE
            LET cnt_orig == size_min(target - alloc, SIZE_BLOCK)
            IN
                Let(adjust_cnt(alloc, curr, cnt_orig), LAMBDA cnt :
                Let(inode_allocate_at(a1.st, cnt), LAMBDA a2 :
                  Let(IF cnt > 0
                      THEN buffer_cache_write_at(a2.st, ind, a2.secs,
                                                 cnt_orig - cnt)
                      ELSE a2.st, LAMBDA s3 :
                IF ~a2.ok
                THEN IF created
                     THEN AllocFail(free_map_release(a2.st, ind, 1),
                                    [d1 EXCEPT !.sectors[IND_BLOCK + i + 1] = 0],
                                    alloc, curr)
                     ELSE AllocFail(a2.st, d1, alloc, curr)
                ELSE IF alloc + cnt_orig = target
                THEN [st |-> s3, d |-> d1, ok |-> TRUE]
                ELSE AllocIndLoop(s3, d1, i + 1, alloc + cnt_orig, curr,
                                  target, tdb))))))

\* inode_allocate_interval (disk_inode, target_sectors): [st, d, ok].  TDB is
\* the indeterminate initial content of temp_dind_block.
inode_allocate_interval(st, d, target, tdb) ==
    LET curr     == bytes_to_sectors(d.length)
        cnt_orig == size_min(target, IND_BLOCK)
    IN
        Let(adjust_cnt(0, curr, cnt_orig), LAMBDA cnt :
        Let(inode_allocate_at(st, cnt), LAMBDA a :
    LET released == ZeroSecs(Len(a.secs))
    IN
                Let([d EXCEPT !.sectors =
                        Overlay(d.sectors,
                                IF a.ok THEN a.secs ELSE released,
                                cnt_orig - cnt)], LAMBDA d1 :
        IF curr >= target THEN [st |-> st, d |-> d, ok |-> TRUE]
        ELSE IF ~a.ok THEN [st |-> a.st, d |-> d1, ok |-> FALSE]
        ELSE IF cnt_orig = target THEN [st |-> a.st, d |-> d1, ok |-> TRUE]
        ELSE AllocIndLoop(a.st, d1, 0, cnt_orig, curr, target, tdb))))

\* inode_allocate (disk_inode): allocate from length 0, then restore length.
inode_allocate(st, d, tdb) ==
         Let(inode_allocate_interval(st, [d EXCEPT !.length = 0],
                                     bytes_to_sectors(d.length), tdb), LAMBDA r :
        [st |-> r.st, d |-> [r.d EXCEPT !.length = d.length], ok |-> r.ok])

\* inode_get_sector (disk_inode, sector_ofs): [st, sector]; the indirect
\* blocks are read through the cache.
inode_get_sector(st, d, sector_ofs) ==
    IF sector_ofs < IND_BLOCK
    THEN [st |-> st, sector |-> d.sectors[sector_ofs + 1]]
    ELSE
      LET o1       == sector_ofs - IND_BLOCK
          ind_ofs  == o1 \div SIZE_BLOCK
          o2       == o1 - (DIND_BLOCK - IND_BLOCK) * SIZE_BLOCK
          dind_ofs == o2 \div (SIZE_BLOCK * SIZE_BLOCK)
          o3       == o2 % (SIZE_BLOCK * SIZE_BLOCK)
      IN
      IF ind_ofs < DIND_BLOCK - IND_BLOCK
      THEN
        Let(buffer_cache_read(st, d.sectors[IND_BLOCK + ind_ofs + 1]),
            LAMBDA r1 :
        [st |-> r1.st, sector |-> AsBlock(r1.out)[(o1 % SIZE_BLOCK) + 1]])
      ELSE
        Let(buffer_cache_read(st, d.sectors[DIND_BLOCK + dind_ofs + 1]),
            LAMBDA rd :
        Let(buffer_cache_read(rd.st,
                              AsBlock(rd.out)[(o3 \div SIZE_BLOCK) + 1]),
            LAMBDA ri :
        [st |-> ri.st, sector |-> AsBlock(ri.out)[(o3 % SIZE_BLOCK) + 1]]))

\* byte_to_sector (inode, pos)
byte_to_sector(st, d, pos) ==
    IF pos < d.length THEN inode_get_sector(st, d, pos \div DISK_SECTOR_SIZE)
    ELSE [st |-> st, sector |-> -1]

\* inode_extend (disk_inode, sector, length): [st, d, ok]
inode_extend(st, d, sector, length, tdb) ==
    LET sector_curr == bytes_to_sectors(d.length)
        sector_max  == bytes_to_sectors(length)
        dl == [d EXCEPT !.length = length]
    IN
        Let(inode_allocate_interval(st, d, sector_max, tdb), LAMBDA r :
    LET rl == [r.d EXCEPT !.length = length]
    IN  IF sector_max <= sector_curr
        THEN IF d.length < length
             THEN [st |-> buffer_cache_write(st, sector, Image(dl)), d |-> dl,
                   ok |-> TRUE]
             ELSE [st |-> st, d |-> d, ok |-> TRUE]
        ELSE IF r.ok
        THEN [st |-> buffer_cache_write(r.st, sector, Image(rl)), d |-> rl,
              ok |-> TRUE]
        ELSE [st |-> r.st, d |-> r.d, ok |-> FALSE])

\* inode_create (sector, length): [st, ok]
inode_create(st, sector, length, tdb) ==
        Let(inode_allocate(st, [EmptyInodeDisk EXCEPT !.length = length], tdb), LAMBDA r :
        IF r.ok
        THEN [st |-> buffer_cache_write(r.st, sector, Image(r.d)), ok |-> TRUE]
        ELSE [st |-> r.st, ok |-> FALSE])

RECURSIVE ReadLoop(_, _, _, _, _)
\* The loop of inode_read_at; OUT is what has been copied so far.  A panic
\* of the disk driver stops the kernel inside the loop.
ReadLoop(st, d, size, offset, out) ==
        Let(byte_to_sector(st, d, offset), LAMBDA b :
    LET sector_ofs == offset % DISK_SECTOR_SIZE
        inode_left == d.length - offset
        sector_left == DISK_SECTOR_SIZE - sector_ofs
        min_left   == IF inode_left < sector_left THEN inode_left
                      ELSE sector_left
    IN
        Let(IF size < min_left THEN size ELSE min_left, LAMBDA chunk_size :
         Let(IF sector_ofs = 0 /\ chunk_size = DISK_SECTOR_SIZE
             THEN buffer_cache_memcpy(b.st, b.sector, 0, DISK_SECTOR_SIZE)
             ELSE buffer_cache_read_at(b.st, b.sector, sector_ofs, chunk_size), LAMBDA r :
        IF size <= 0 THEN [st |-> st, out |-> out]
        ELSE IF chunk_size <= 0 THEN [st |-> b.st, out |-> out]
        ELSE IF r.st.panic THEN [st |-> r.st, out |-> out]
        ELSE ReadLoop(r.st, d, size - chunk_size, offset + chunk_size,
                      out \o r.out))))

\* inode_read_at (inode, buffer, size, offset): [st, out]; the return value is
\* Len(out).
inode_read_at(st, d, size, offset) == ReadLoop(st, d, size, offset, <<>>)

RECURSIVE WriteLoop(_, _, _, _, _)
\* The loop of inode_write_at; BUF is what is still to be written.  A panic
\* of the disk driver stops the kernel inside the loop.
WriteLoop(st, d, buf, offset, written_) ==
    LET size       == Len(buf)
    IN
        Let(byte_to_sector(st, d, offset), LAMBDA b :
    LET sector_ofs == offset % DISK_SECTOR_SIZE
        inode_left == d.length - offset
        sector_left == DISK_SECTOR_SIZE - sector_ofs
        min_left   == IF inode_left < sector_left THEN inode_left
                      ELSE sector_left
    IN
        Let(IF size < min_left THEN size ELSE min_left, LAMBDA chunk_size :
    LET chunk      == SubSeq(buf, 1, chunk_size)
    IN
         Let(IF sector_ofs = 0 /\ chunk_size = DISK_SECTOR_SIZE
             THEN buffer_cache_write(b.st, b.sector, chunk)
             ELSE IF sector_ofs > 0 \/ chunk_size < sector_left
             THEN buffer_cache_write_at(b.st, b.sector, chunk, sector_ofs)
             ELSE buffer_cache_write(b.st, b.sector, chunk), LAMBDA w :
        IF size <= 0 THEN [st |-> st, ret |-> written_]
        ELSE IF chunk_size <= 0 THEN [st |-> b.st, ret |-> written_]
        ELSE IF w.panic THEN [st |-> w, ret |-> written_]
        ELSE WriteLoop(w, d, SubSeq(buf, chunk_size + 1, size),
                       offset + chunk_size, written_ + chunk_size))))

\* inode_write_at without its test of deny_write_cnt.
inode_write_at_IgnoreDeny(st, ino, buf, offset, tdb) ==
    Let(inode_extend(st, ino.data, ino.sector, offset + Len(buf), tdb),
        LAMBDA e :
        IF ~e.ok THEN [st |-> e.st, d |-> e.d, ret |-> 0]
        ELSE Let(WriteLoop(e.st, e.d, buf, offset, 0), LAMBDA w :
                 [st |-> w.st, d |-> e.d, ret |-> w.ret]))

\* inode_write_at (inode, buffer, size, offset): [st, d, ret], d being
\* inode->data afterwards.
inode_write_at(st, ino, buf, offset, tdb) ==
    IF ino.deny_write_cnt > 0 THEN [st |-> st, d |-> ino.data, ret |-> 0]
    ELSE
    Let(inode_extend(st, ino.data, ino.sector, offset + Len(buf), tdb),
        LAMBDA e :
        IF ~e.ok THEN [st |-> e.st, d |-> e.d, ret |-> 0]
        ELSE Let(WriteLoop(e.st, e.d, buf, offset, 0), LAMBDA w :
                 [st |-> w.st, d |-> e.d, ret |-> w.ret]))

---------------------------------------------------------------------------
(* filesys/inode.c: the list of open inodes.  An in-memory inode is a      *)
(* record [id, sector, open_cnt, deny_write_cnt, removed, data]; id stands *)
(* for the address malloc returned.                                        *)

\* Number of struct inode that malloc can hand out.
MaxInodes == 3

InodeIds(list) == {list[k].id : k \in 1 .. Len(list)}

\* The list position of the inode with address ID (0 if it is not listed).
PosOf(list, id) ==
    IF \E k \in 1 .. Len(list) : list[k].id = id
    THEN CHOOSE k \in 1 .. Len(list) : list[k].id = id
    ELSE 0

InodeOf(list, id) == list[PosOf(list, id)]

\* The scan of inode_open: position of the first listed inode with SECTOR,
\* 0 if there is none.
inode_open_scan(list, sector) ==
    IF \E k \in 1 .. Len(list) : list[k].sector = sector
    THEN CHOOSE k \in 1 .. Len(list) :
            /\ list[k].sector = sector
            /\ \A m \in 1 .. k - 1 : list[m].sector # sector
    ELSE 0

\* inode_reopen
inode_reopen(list, id) ==
    [list EXCEPT ![PosOf(list, id)].open_cnt = @ + 1]

\* malloc (sizeof *inode): an address not in use, NULL when there is none.
malloc_inode(list) ==
    IF \E id \in 1 .. MaxInodes : id \notin InodeIds(list)
    THEN CHOOSE id \in 1 .. MaxInodes :
            /\ id \notin InodeIds(list)
            /\ \A m \in 1 .. id - 1 : m \in InodeIds(list)
    ELSE NULL

\* The second half of inode_open: allocate, push to the front of the list,
\* initialise and read the disk inode.  [st, list, id]
inode_open_insert(st, list, sector) ==
        Let(malloc_inode(list), LAMBDA id :
        Let(buffer_cache_read(st, sector), LAMBDA r :
          Let([id |-> id, sector |-> sector, open_cnt |-> 1,
               deny_write_cnt |-> 0, removed |-> FALSE,
               data |-> FromImage(r.out)], LAMBDA n :
        IF id = NULL THEN [st |-> st, list |-> list, id |-> NULL]
        ELSE [st |-> r.st, list |-> <<n>> \o list, id |-> id])))

\* inode_open (sector): [st, list, id]
inode_open(st, list, sector) ==
        Let(inode_open_scan(list, sector), LAMBDA k :
        IF k # 0
        THEN [st |-> st, list |-> inode_reopen(list, list[k].id),
              id |-> list[k].id]
        ELSE inode_open_insert(st, list, sector))

RemoveAt(list, k) == SubSeq(list, 1, k - 1) \o SubSeq(list, k + 1, Len(list))

\* inode_close that leaves the inode in the list on the last close.
inode_close_KeepListed(st, list, id) ==
    [st |-> st, list |-> [list EXCEPT ![PosOf(list, id)].open_cnt = @ - 1]]

\* inode_close (inode): [st, list]
inode_close(st, list, id) ==
        Let(PosOf(list, id), LAMBDA k :
    LET i  == list[k]
    IN
        Let(buffer_cache_remove(st, i.sector), LAMBDA s1 :
        Let(free_map_release(s1, i.sector, 1), LAMBDA s2 :
        Let(inode_release(s2, i.data).st, LAMBDA s3 :
        IF i.open_cnt - 1 # 0
        THEN [st |-> st, list |-> [list EXCEPT ![k].open_cnt = @ - 1]]
        ELSE [st |-> IF i.removed THEN s3 ELSE s1, list |-> RemoveAt(list, k)]))))

\* inode_remove
inode_remove(list, id) == [list EXCEPT ![PosOf(list, id)].removed = TRUE]

\* inode_deny_write; the ASSERT is checked by the caller of this operator.
inode_deny_write(list, id) ==
    [list EXCEPT ![PosOf(list, id)].deny_write_cnt = @ + 1]

\* inode_allow_write
inode_allow_write(list, id) ==
    [list EXCEPT ![PosOf(list, id)].deny_write_cnt = @ - 1]

\* free_map_create: create the free-map inode, open it and write the bitmap.
\* The bitmap file is scaled to one sector.  [st, list]
free_map_create(st, list) ==
        Let(inode_create(st, FREE_MAP_SECTOR, DISK_SECTOR_SIZE, Zeros), LAMBDA c :
        Let(inode_open(c.st, list, FREE_MAP_SECTOR), LAMBDA o :
        Let(InodeOf(o.list, o.id).data.sectors[1], LAMBDA f :
        [st |-> bitmap_write([o.st EXCEPT !.fmfile = f]), list |-> o.list])))

\* free_map_init: sectors 0 and 1 are marked in use.
free_map_init ==
    [s \in Sectors |-> s \in {FREE_MAP_SECTOR, ROOT_DIR_SECTOR}]

\* What every sector of the device holds before it is formatted: zeros on
\* a new device, and on a used one words that are no sector of the disk.
OldBlocks == {Zeros, [k \in 1 .. DISK_SECTOR_SIZE |-> NumSectors]}

\* The volume after formatting a device whose sectors hold OLD:
\* free_map_init, free_map_create, and a root directory inode of one sector.
FormattedOn(old) ==
    Let([bc |-> [i \in 1 .. BUFFER_CACHE_NUM |-> EmptyEntry],
         pos |-> 0, disk |-> [s \in Sectors |-> old],
         fm |-> free_map_init, fmfile |-> NULL, panic |-> FALSE],
        LAMBDA s0 :
        Let(free_map_create(s0, <<>>), LAMBDA f :
        Let(inode_create(f.st, ROOT_DIR_SECTOR, DISK_SECTOR_SIZE, Zeros),
            LAMBDA r : [st |-> r.st, list |-> f.list])))

Formatted == FormattedOn(Zeros)

---------------------------------------------------------------------------
(* Values the variables of the other subsystems keep while a specification *)
(* does not use them.                                                      *)

NoThread == NULL
NoOp     == [op |-> "none"]

InodeIdle ==
    /\ free_map = [s \in Sectors |-> FALSE]
    /\ free_map_file = NULL
    /\ open_inodes = <<>>
    /\ panicked = FALSE
    /\ live = {}
    /\ files = <<>>
    /\ lastOp = NoOp
    /\ nops = 0

WaitIdle ==
    /\ child_list = <<>>
    /\ child_procs = <<>>
    /\ waiter = <<>>

ProcIdle == WaitIdle /\ proc_mmap = <<>>

OpenIdle ==
    /\ filesys_lock = NoThread
    /\ opener = <<>>
    /\ locks = <<>>
    /\ threads = <<>>

VmIdle ==
    /\ sptes = {}
    /\ pagedir = <<>>
    /\ frame_table = <<>>
    /\ frame_table_pos = 0
    /\ user_pool = {}
    /\ frames = <<>>
    /\ swap_table = <<>>
    /\ swap_disk = <<>>
    /\ mfile = <<>>
    /\ mmaps = <<>>
    /\ loading = <<>>
    /\ vmlog = <<>>
    /\ vmops = 0

---------------------------------------------------------------------------
(* The buffer cache on its own: clients, the flush-back worker and the     *)
(* read-ahead queue.                                                       *)

CacheSt ==
    [bc |-> buffer_cache, pos |-> buffer_cache_pos, disk |-> disk,
     fm |-> free_map, fmfile |-> free_map_file, panic |-> panicked]

SetCache(st) ==
    /\ buffer_cache' = st.bc
    /\ buffer_cache_pos' = st.pos
    /\ disk' = st.disk

CacheSectors == 0 .. NumCacheSectors - 1
Words        == 1 .. MaxWord

\* buffer_cache_init, on a device whose sectors are all zero.
InitCache ==
    /\ buffer_cache = [i \in 1 .. BUFFER_CACHE_NUM |-> EmptyEntry]
    /\ buffer_cache_pos = 0
    /\ read_ahead_list = <<>>
    /\ read_ahead_sema = sema_init(0)
    /\ disk = [s \in Sectors |-> Zeros]
    /\ written = [s \in Sectors |-> Zeros]
    /\ lastRead = NoRead
    /\ InodeIdle /\ OpenIdle /\ ProcIdle /\ VmIdle

\* A client calls buffer_cache_write (sector, block).
CacheWrite(s, v) ==
    LET blk == [k \in 1 .. DISK_SECTOR_SIZE |-> v]
    IN  /\ SetCache(buffer_cache_write(CacheSt, s, blk))
        /\ written' = [written EXCEPT ![s] = blk]
        /\ lastRead' = NoRead
        /\ UNCHANGED <<read_ahead_list, read_ahead_sema, inodeVars, openVars, procVars,
                       vmVars>>

\* A client calls buffer_cache_write_at (sector, &word, offset, 1 word).
CacheWriteAt(s, off, v) ==
    /\ SetCache(buffer_cache_write_at(CacheSt, s, <<v>>, off))
    /\ written' = [written EXCEPT ![s] = Overlay(written[s], <<v>>, off)]
    /\ lastRead' = NoRead
    /\ UNCHANGED <<read_ahead_list, read_ahead_sema, inodeVars, openVars, procVars,
                   vmVars>>

\* What a fetch of sector s evicts: the sector and dirty bit of the entry
\* buffer_cache_to_evict returns, when s is not cached and no entry is free.
NoVictim == [sector |-> NULL, dirty |-> FALSE, evicted |-> FALSE]
Evicted(s) ==
    IF buffer_cache_find(buffer_cache, s) = NULL
          /\ buffer_cache_get_empty(buffer_cache) = NULL
    THEN LET e == buffer_cache[buffer_cache_to_evict(CacheSt).idx]
         IN  [sector |-> e.sector, dirty |-> e.dirty, evicted |-> TRUE]
    ELSE NoVictim

\* A client calls buffer_cache_read (sector, buffer).
CacheRead(s) ==
    LET r == buffer_cache_read(CacheSt, s)
    IN  /\ SetCache(r.st)
        /\ lastRead' = [sector |-> s, offset |-> 0, data |-> r.out,
                         victim |-> Evicted(s)]
        /\ UNCHANGED <<written, read_ahead_list, read_ahead_sema, inodeVars,
                       openVars, procVars, vmVars>>

\* A client calls buffer_cache_read_at (sector, buffer, offset, 1 word).
CacheReadAt(s, off) ==
    LET r == buffer_cache_read_at(CacheSt, s, off, 1)
    IN  /\ SetCache(r.st)
        /\ lastRead' = [sector |-> s, offset |-> off, data |-> r.out,
                         victim |-> Evicted(s)]
        /\ UNCHANGED <<written, read_ahead_list, read_ahead_sema, inodeVars,
                       openVars, procVars, vmVars>>

\* A client calls buffer_cache_remove (sector).
CacheRemove(s) ==
    /\ SetCache(buffer_cache_remove(CacheSt, s))
    /\ lastRead' = NoRead
    /\ UNCHANGED <<written, read_ahead_list, read_ahead_sema,
                   inodeVars, openVars, procVars, vmVars>>

\* buffer_cache_thread_flush_back: timer_sleep has returned; buffer_cache_done.
FlushBack ==
    /\ SetCache(buffer_cache_done(CacheSt))
    /\ lastRead' = NoRead
    /\ UNCHANGED <<written, read_ahead_list, read_ahead_sema,
                   inodeVars, openVars, procVars, vmVars>>

\* Longest read-ahead queue explored, and the sectors requested.
MaxReadAhead == 1
NumReadAheadSectors == 1

\* buffer_cache_read_ahead: the request is queued; read_ahead_sema is not
\* signalled anywhere in cache.c.
CacheReadAhead(s) ==
    /\ Len(read_ahead_list) < MaxReadAhead
    /\ read_ahead_list' = Append(read_ahead_list, s)
    /\ lastRead' = NoRead
    /\ UNCHANGED <<buffer_cache, buffer_cache_pos, disk, read_ahead_sema,
                   written, inodeVars, openVars, procVars, vmVars>>

\* buffer_cache_thread_read_ahead: one turn of the worker's loop, which
\* starts with sema_down (&read_ahead_sema).  With the value at 0 sema_down
\* puts the thread on the waiters and blocks it; list_pop_front asserts
\* that the list is not empty.
ReadAheadWorker ==
    /\ read_ahead_sema.waiters = <<>>
    /\ IF read_ahead_sema.value = 0
       THEN /\ read_ahead_sema' =
                   [read_ahead_sema EXCEPT !.waiters = <<"read-ahead">>]
            /\ UNCHANGED <<buffer_cache, buffer_cache_pos, disk,
                           read_ahead_list, panicked>>
       ELSE IF read_ahead_list = <<>>
       THEN /\ panicked' = TRUE
            /\ read_ahead_sema' =
                   [read_ahead_sema EXCEPT !.value = @ - 1]
            /\ UNCHANGED <<buffer_cache, buffer_cache_pos, disk,
                           read_ahead_list>>
       ELSE /\ read_ahead_sema' =
                   [read_ahead_sema EXCEPT !.value = @ - 1]
            /\ read_ahead_list' = Tail(read_ahead_list)
            /\ SetCache(buffer_cache_fetch(CacheSt, Head(read_ahead_list),
                                           TRUE).st)
            /\ UNCHANGED panicked
    /\ UNCHANGED <<obsVars, free_map, free_map_file, open_inodes, live,
                   files, lastOp, nops, openVars, procVars, vmVars>>

\* The clients and the flush-back worker.  The only turn the read-ahead
\* worker ever takes is to block in sema_down (the semaphore starts at 0
\* and nothing raises it), which no client observes: its turn is among the
\* steps of the read-ahead specification below.
NextCache ==
    \/ \E s \in CacheSectors, v \in Words : CacheWrite(s, v)
    \/ \E s \in CacheSectors, off \in 0 .. DISK_SECTOR_SIZE - 1, v \in Words :
          CacheWriteAt(s, off, v)
    \/ \E s \in CacheSectors : CacheRead(s)
    \/ \E s \in CacheSectors, off \in 0 .. DISK_SECTOR_SIZE - 1 :
          CacheReadAt(s, off)
    \/ \E s \in CacheSectors : CacheRemove(s)
    \/ FlushBack
    \/ \E s \in 0 .. NumReadAheadSectors - 1 : CacheReadAhead(s)

SpecCache == InitCache /\ [][NextCache]_vars

\* C36: clean entries mirror the disk.  In every reachable state an entry
\* that is in use and not dirty holds the bytes its sector has on the disk,
\* whether the slot was filled by a read, reused after buffer_cache_remove
\* or filled by a whole-sector write, which does not read the disk.
C36_CleanMirrorsDisk ==
    \A i \in 1 .. BUFFER_CACHE_NUM :
        (buffer_cache[i].usebit /\ ~buffer_cache[i].dirty) =>
            /\ buffer_cache[i].sector \in Sectors
            /\ buffer_cache[i].data = disk[buffer_cache[i].sector]

\* The first slot holds a clean copy of written bytes while the second
\* slot has never been used: nothing was ever evicted, so the slot was
\* filled by a whole-sector write, released by buffer_cache_remove and
\* filled again by the read that has just returned.
C36_Witness ==
    /\ buffer_cache[1].usebit
    /\ ~buffer_cache[1].dirty
    /\ buffer_cache[1].data # Zeros
    /\ buffer_cache[2] = EmptyEntry
    /\ lastRead.sector = buffer_cache[1].sector
    /\ lastRead.offset = 0
    /\ lastRead.data = written[lastRead.sector]

\* Read-ahead: the callers that queue requests, the worker, and clients
\* that read and write whole sectors.  The scheduler is round-robin, so a
\* worker that is ready to run does run: weak fairness of its turn.
NextReadAhead ==
    \/ \E s \in 0 .. NumReadAheadSectors - 1 : CacheReadAhead(s)
    \/ ReadAheadWorker
    \/ \E s \in CacheSectors, v \in Words : CacheWrite(s, v)
    \/ \E s \in CacheSectors : CacheRead(s)
    \/ FlushBack

SpecReadAhead ==
    InitCache /\ [][NextReadAhead]_vars /\ WF_vars(ReadAheadWorker)

\* The sub-range a read returned, as the most recent writes left it.
Expected(r) ==
    [k \in 1 .. Len(r.data) |-> written[r.sector][r.offset + k]]

(* C2: a read of sector s that starts after a write of s has returned      *)
(* observes the bytes of the most recent completed write to s, under any   *)
(* interleaving of writes, reads, evictions, invalidations, the flush-back *)
(* worker and read-ahead requests.                                         *)
C2_ReadAfterWrite ==
    lastRead # NoRead => lastRead.data = Expected(lastRead)

\* A read returned non-zero bytes of a sector that was written, evicted and
\* fetched again.
C2_Witness ==
    /\ lastRead # NoRead
    /\ lastRead.data # <<0>> /\ lastRead.data # Zeros
    /\ disk[lastRead.sector] = written[lastRead.sector]
    /\ \E s \in CacheSectors : s # lastRead.sector /\ disk[s] # Zeros

(* C3: no two in-use cache entries hold the same sector number.            *)
C3_AtMostOneEntryPerSector ==
    \A i, j \in 1 .. BUFFER_CACHE_NUM :
        (i # j /\ buffer_cache[i].usebit /\ buffer_cache[j].usebit)
            => buffer_cache[i].sector # buffer_cache[j].sector

\* The cache is full, has evicted, and holds a sector again after an
\* invalidation freed its slot.
C3_Witness ==
    /\ \A i \in 1 .. BUFFER_CACHE_NUM : buffer_cache[i].usebit
    /\ buffer_cache_pos # 0
    /\ \E i \in 1 .. BUFFER_CACHE_NUM : buffer_cache[i].sector # 0
    /\ \E s \in CacheSectors : disk[s] # Zeros

(* C12: when buffer_cache_done returns, the disk holds, for every in-use   *)
(* cache entry, the bytes of the entry in the entry's sector.              *)
C12_FlushDurable ==
    [][FlushBack =>
          \A i \in 1 .. BUFFER_CACHE_NUM :
              buffer_cache'[i].usebit =>
                  disk'[buffer_cache'[i].sector] = buffer_cache'[i].data]_vars

\* Every entry is in use, one of them is dirty, and the bytes a writer put
\* into the dirty one are on the disk: buffer_cache_done has written it
\* (it leaves the dirty flag set).
C12_Witness ==
    /\ \A i \in 1 .. BUFFER_CACHE_NUM : buffer_cache[i].usebit
    /\ \E i \in 1 .. BUFFER_CACHE_NUM :
           /\ buffer_cache[i].dirty
           /\ buffer_cache[i].data # Zeros
           /\ disk[buffer_cache[i].sector] = buffer_cache[i].data

\* The request for sector s is in the read-ahead queue.
ReadAheadQueued(s) ==
    \E k \in 1 .. Len(read_ahead_list) : read_ahead_list[k] = s

(* C13: after buffer_cache_read_ahead (s), under fair scheduling of the    *)
(* worker, the request is eventually popped from the queue and s is in the *)
(* cache, so that a read of s that comes next is a hit.                    *)
C13_ReadAheadLive ==
    \A s \in 0 .. NumReadAheadSectors - 1 :
        ReadAheadQueued(s) ~>
            (~ReadAheadQueued(s) /\ buffer_cache_find(buffer_cache, s) # NULL)

\* A request is queued, sector 0 is not cached, and the worker is blocked
\* on the semaphore, whose value is 0.
C13_Witness ==
    /\ ReadAheadQueued(0)
    /\ buffer_cache_find(buffer_cache, 0) = NULL
    /\ read_ahead_sema.value = 0
    /\ read_ahead_sema.waiters # <<>>

(* C16: after buffer_cache_remove (sector) no in-use cache entry holds the *)
(* sector, whether its entry was dirty or clean; the bytes of a dirty      *)
(* entry are on the disk; every other entry is as it was.                  *)
C16_Invalidate ==
    [][\A s \in CacheSectors :
          CacheRemove(s) =>
              /\ \A i \in 1 .. BUFFER_CACHE_NUM :
                    ~(buffer_cache'[i].usebit /\ buffer_cache'[i].sector = s)
              /\ \A i \in 1 .. BUFFER_CACHE_NUM :
                    IF buffer_cache[i].usebit /\ buffer_cache[i].sector = s
                    THEN buffer_cache[i].dirty
                            => disk'[s] = buffer_cache[i].data
                    ELSE buffer_cache'[i] = buffer_cache[i]]_vars

\* A step in which buffer_cache_fetch takes a victim: every entry is in
\* use and one of them changes its sector.
CacheEvictStep ==
    /\ \A i \in 1 .. BUFFER_CACHE_NUM : buffer_cache[i].usebit
    /\ \E i \in 1 .. BUFFER_CACHE_NUM :
          buffer_cache'[i].sector # buffer_cache[i].sector

\* The k-th entry in cursor order, k from 0.
CursorAt(k) == ((buffer_cache_pos + k) % BUFFER_CACHE_NUM) + 1

\* How many entries the clock passes before it stops: those before the
\* first one whose accessed bit is clear, or all of them.
CursorSweep ==
    LET clear == {k \in 0 .. BUFFER_CACHE_NUM - 1 :
                      ~buffer_cache[CursorAt(k)].accessed}
    IN  IF clear = {} THEN BUFFER_CACHE_NUM
        ELSE CHOOSE k \in clear : \A m \in clear : k <= m

(* C28: buffer-cache clock policy.  When the cache is full and a miss      *)
(* needs a slot, the victim is the first entry in cursor order whose       *)
(* accessed bit was clear, or the entry at the cursor if every bit was     *)
(* set; every other entry the cursor passed on the way has kept its sector *)
(* and has had its accessed bit cleared.                                   *)
C28_CacheClock ==
    [][CacheEvictStep =>
        LET v == CursorAt(CursorSweep % BUFFER_CACHE_NUM)
        IN  /\ \A i \in 1 .. BUFFER_CACHE_NUM :
                  buffer_cache'[i].sector # buffer_cache[i].sector => i = v
            /\ \A k \in 0 .. CursorSweep - 1 :
                  CursorAt(k) # v =>
                      /\ buffer_cache'[CursorAt(k)].sector
                            = buffer_cache[CursorAt(k)].sector
                      /\ ~buffer_cache'[CursorAt(k)].accessed]_vars

\* A read has just taken a victim and the accessed bit of another entry is
\* still set.
C28_Witness ==
    /\ lastRead # NoRead
    /\ lastRead.victim.evicted
    /\ \E i \in 1 .. BUFFER_CACHE_NUM :
          /\ buffer_cache[i].sector # lastRead.sector
          /\ buffer_cache[i].usebit
          /\ buffer_cache[i].accessed

(* C29: no lost write on eviction.  When the victim of a fetch is dirty    *)
(* its bytes are on the disk, in its own sector, when the slot holds the   *)
(* new sector; and at every moment, for every sector, the cached bytes if  *)
(* it is cached, else the disk bytes, are the last bytes written to the    *)
(* sector through the cache.                                               *)
C29_NoLostWrite ==
    /\ [](\A s \in CacheSectors : Logical(CacheSt, s) = written[s])
    /\ [][CacheEvictStep =>
            \A i \in 1 .. BUFFER_CACHE_NUM :
                (/\ buffer_cache'[i].sector # buffer_cache[i].sector
                 /\ buffer_cache[i].dirty)
                    => disk'[buffer_cache[i].sector] = buffer_cache[i].data]_vars

\* A read has just evicted a dirty entry whose sector had been written: the
\* sector is no longer cached and the disk holds the bytes written last.
C29_Witness ==
    /\ lastRead # NoRead
    /\ lastRead.victim.evicted
    /\ lastRead.victim.dirty
    /\ buffer_cache_find(buffer_cache, lastRead.victim.sector) = NULL
    /\ written[lastRead.victim.sector] # Zeros
    /\ disk[lastRead.victim.sector] = written[lastRead.victim.sector]

---------------------------------------------------------------------------
(* The inode store: one kernel thread at a time creates, opens, writes,    *)
(* reads, denies, allows, removes and closes files on a formatted volume.  *)
(* An opener is a handle h with files[h] = [inode, denied]; as the         *)
(* comments of inode_deny_write and inode_allow_write require, an opener   *)
(* denies writes at most once and allows them again before it closes.      *)

\* Number of openers.
MaxHandles == 2
\* Number of file-system calls in one run.
MaxOps == 5
\* Number of different buffers a writer may pass.
NumSeeds == 1

Handles == 1 .. MaxHandles
NoFile  == [inode |-> NULL, denied |-> FALSE]

MaxFileWords == MaxFileSectors * DISK_SECTOR_SIZE

\* Sector index at which the doubly indirect region starts.
DindStart == IND_BLOCK + (DIND_BLOCK - IND_BLOCK) * SIZE_BLOCK

\* Lengths for create: an empty file, a file that ends with the first
\* indirect block of the doubly indirect block, and a file one sector
\* longer than the largest.
CreateLens == {0, (DindStart + SIZE_BLOCK) * DISK_SECTOR_SIZE,
               (MaxFileSectors + 1) * DISK_SECTOR_SIZE}
\* Sizes for read and write: one word, a direct sector and part of an
\* indirect one, and the largest file.
IoSizes    == {1, IND_BLOCK * DISK_SECTOR_SIZE + 1, MaxFileWords}
IoOffsets  == {0, IND_BLOCK * DISK_SECTOR_SIZE}

\* What temp_dind_block may hold before it is assigned: the stack's words.
\* A zeroed stack, and words that are no sector of the disk.
Garbage == {Zeros, SubSeq([k \in 1 .. SIZE_BLOCK |-> NumSectors], 1, SIZE_BLOCK)}

\* The choices that matter for a call that allocates up to sector index N:
\* temp_dind_block exists only in the doubly indirect loop.
GarbageFor(n) == IF n > DindStart THEN Garbage ELSE {Zeros}

\* The buffer a writer passes: SIZE words depending on SEED.
Pattern(seed, size) ==
    SubSeq([k \in 1 .. size |-> 1 + ((k + seed) % 2)], 1, size)

FsSt ==
    [bc |-> buffer_cache, pos |-> buffer_cache_pos, disk |-> disk,
     fm |-> free_map, fmfile |-> free_map_file, panic |-> panicked]

SetFs(st) ==
    /\ buffer_cache' = st.bc
    /\ buffer_cache_pos' = st.pos
    /\ disk' = st.disk
    /\ free_map' = st.fm
    /\ free_map_file' = st.fmfile
    /\ panicked' = st.panic

CacheRest == UNCHANGED <<read_ahead_list, read_ahead_sema, written, lastRead>>

\* The state after filesys_init (true).
InitInode ==
    \E old \in OldBlocks : \E f \in {FormattedOn(old)} :
        /\ buffer_cache = f.st.bc
        /\ buffer_cache_pos = f.st.pos
        /\ disk = f.st.disk
        /\ free_map = f.st.fm
        /\ free_map_file = f.st.fmfile
        /\ panicked = FALSE
        /\ open_inodes = f.list
        /\ live = {FREE_MAP_SECTOR, ROOT_DIR_SECTOR}
        /\ files = [h \in Handles |-> NoFile]
        /\ lastOp = NoOp
        /\ nops = 0
        /\ read_ahead_list = <<>>
        /\ read_ahead_sema = sema_init(0)
        /\ written = [s \in Sectors |-> Zeros]
        /\ lastRead = NoRead
        /\ OpenIdle /\ ProcIdle /\ VmIdle

CanCall == ~panicked /\ nops < MaxOps

\* Files a name lookup finds: created, and not removed.
Openable ==
    {s \in live \ {FREE_MAP_SECTOR, ROOT_DIR_SECTOR} :
        \A k \in 1 .. Len(open_inodes) :
            open_inodes[k].sector = s => ~open_inodes[k].removed}

\* The lowest handle not in use, 0 if all are in use.
FreeHandle ==
    IF \E h \in Handles : files[h].inode = NULL
    THEN CHOOSE h \in Handles :
            /\ files[h].inode = NULL
            /\ \A m \in 1 .. h - 1 : files[m].inode # NULL
    ELSE 0

\* Create a file: allocate its inode sector, inode_create, and give the
\* sector back if that fails.
FsCreate(len, tdb) ==
    /\ CanCall
    /\ nops' = nops + 1
    /\ \E a \in {free_map_allocate(FsSt, 1)} :
          IF ~a.ok
          THEN /\ SetFs(a.st) /\ UNCHANGED live
               /\ lastOp' = [op |-> "create", ok |-> FALSE, len |-> len,
                             usedBefore |-> UsedBits(free_map),
                     bitsBefore |-> free_map]
          ELSE \E c \in {inode_create(a.st, a.sector, len, tdb)} :
                 /\ SetFs(IF c.ok THEN c.st
                          ELSE free_map_release(c.st, a.sector, 1))
                 /\ live' = IF c.ok THEN live \cup {a.sector} ELSE live
                 /\ lastOp' = [op |-> "create", ok |-> c.ok, len |-> len,
                               usedBefore |-> UsedBits(free_map),
                               bitsBefore |-> free_map]
    /\ UNCHANGED <<open_inodes, files>>
    /\ CacheRest /\ UNCHANGED <<openVars, procVars, vmVars>>

\* Opener h opens the file whose inode is at SECTOR: inode_open.
FsOpen(h, sector) ==
    /\ CanCall
    /\ h = FreeHandle
    /\ sector \in Openable
    /\ \E o \in {inode_open(FsSt, open_inodes, sector)} :
          /\ o.id # NULL
          /\ SetFs(o.st)
          /\ open_inodes' = o.list
          /\ files' = [files EXCEPT ![h] = [inode |-> o.id, denied |-> FALSE]]
          /\ lastOp' = [op |-> "open", id |-> o.id]
    /\ nops' = nops + 1
    /\ UNCHANGED live
    /\ CacheRest /\ UNCHANGED <<openVars, procVars, vmVars>>

\* Opener h2 takes a second reference to the inode of opener h: inode_reopen.
FsReopen(h, h2) ==
    /\ CanCall
    /\ files[h].inode # NULL
    /\ h2 = FreeHandle
    /\ nops' = nops + 1
    /\ open_inodes' = inode_reopen(open_inodes, files[h].inode)
    /\ files' = [files EXCEPT ![h2] = [inode |-> files[h].inode,
                                       denied |-> FALSE]]
    /\ lastOp' = [op |-> "reopen", id |-> files[h].inode]
    /\ UNCHANGED <<cacheVars, free_map, free_map_file, panicked, live>>
    /\ CacheRest /\ UNCHANGED <<openVars, procVars, vmVars>>

\* Opener h closes its inode: inode_close.  The file's sectors stop being
\* live when a removed inode is closed for the last time.
FsClose(h) ==
    LET id == files[h].inode
        i  == InodeOf(open_inodes, id)
    IN  /\ CanCall
        /\ id # NULL
        /\ ~files[h].denied
        /\ nops' = nops + 1
        /\ \E c \in {inode_close(FsSt, open_inodes, id)} :
              /\ SetFs(c.st)
              /\ open_inodes' = c.list
        /\ files' = [files EXCEPT ![h] = NoFile]
        /\ live' = IF i.open_cnt = 1 /\ i.removed THEN live \ {i.sector}
                   ELSE live
        /\ lastOp' = [op |-> "close", id |-> id, removed |-> i.removed,
                       sectors |-> bytes_to_sectors(i.data.length)]
        /\ CacheRest /\ UNCHANGED <<openVars, procVars, vmVars>>

\* Remove the file of opener h: inode_remove; the inode stays until closed.
FsRemove(h) ==
    /\ CanCall
    /\ files[h].inode # NULL
    /\ ~InodeOf(open_inodes, files[h].inode).removed
    /\ nops' = nops + 1
    /\ open_inodes' = inode_remove(open_inodes, files[h].inode)
    /\ lastOp' = [op |-> "remove", id |-> files[h].inode]
    /\ UNCHANGED <<cacheVars, free_map, free_map_file, panicked, live, files>>
    /\ CacheRest /\ UNCHANGED <<openVars, procVars, vmVars>>

\* Sectors a write of SIZE words at OFFSET needs beyond those the file has,
\* indirect and doubly indirect blocks included, when it extends the file.
SectorsFor(n) ==
    LET ind  == Min(Max(n - IND_BLOCK, 0),
                    (DIND_BLOCK - IND_BLOCK) * SIZE_BLOCK)
        dind == Max(n - IND_BLOCK - (DIND_BLOCK - IND_BLOCK) * SIZE_BLOCK, 0)
    IN  n + (ind + SIZE_BLOCK - 1) \div SIZE_BLOCK
          + (IF dind > 0 THEN 1 + (dind + SIZE_BLOCK - 1) \div SIZE_BLOCK
             ELSE 0)

\* Opener h writes Pattern(seed, size) at OFFSET: inode_write_at.
FsWrite(h, seed, size, offset, tdb) ==
    LET id  == files[h].inode
        k   == PosOf(open_inodes, id)
        i   == open_inodes[k]
        buf == Pattern(seed, size)
    IN  /\ CanCall
        /\ id # NULL
        /\ nops' = nops + 1
        /\ \E w \in {inode_write_at(FsSt, i, buf, offset, tdb)},
              e \in {inode_extend(FsSt, i.data, i.sector, offset + size,
                                  tdb)} :
              /\ SetFs(w.st)
              /\ open_inodes' = [open_inodes EXCEPT ![k].data = w.d]
              /\ lastOp' =
                    [op |-> "write", id |-> id, buf |-> buf,
                     offset |-> offset, ret |-> w.ret,
                     denied |-> i.deny_write_cnt > 0,
                     extended |-> i.deny_write_cnt = 0 /\ e.ok,
                     outOfSectors |-> i.deny_write_cnt = 0 /\ ~e.ok,
                     extendPanic |-> e.st.panic,
                     room |-> SectorsFor(bytes_to_sectors(offset + size))
                                - SectorsFor(bytes_to_sectors(i.data.length))
                              <= NumSectors - UsedBits(free_map),
                     lengthBefore |-> i.data.length,
                     usedBefore |-> UsedBits(free_map),
                     bitsBefore |-> free_map]
        /\ UNCHANGED <<live, files>>
        /\ CacheRest /\ UNCHANGED <<openVars, procVars, vmVars>>

\* Opener h reads SIZE words at OFFSET: inode_read_at.  The record keeps
\* the write that came just before on the same inode, if any.
FsRead(h, size, offset) ==
    LET id == files[h].inode
        i  == InodeOf(open_inodes, id)
    IN  /\ CanCall
        /\ id # NULL
        /\ nops' = nops + 1
        /\ \E r \in {inode_read_at(FsSt, i.data, size, offset)} :
              /\ SetFs(r.st)
              /\ lastOp' = [op |-> "read", id |-> id, size |-> size,
                            offset |-> offset, out |-> r.out,
                            ret |-> Len(r.out),
                            w |-> IF lastOp.op = "write" /\ lastOp.id = id
                                  THEN lastOp ELSE NoOp]
        /\ UNCHANGED <<open_inodes, live, files>>
        /\ CacheRest /\ UNCHANGED <<openVars, procVars, vmVars>>

\* Opener h denies writes: inode_deny_write, whose ASSERT stops the kernel.
FsDenyWrite(h) ==
    LET id == files[h].inode
        l  == inode_deny_write(open_inodes, id)
        i  == InodeOf(l, id)
    IN  /\ CanCall
        /\ id # NULL
        /\ ~files[h].denied
        /\ nops' = nops + 1
        /\ open_inodes' = l
        /\ panicked' = ~(i.deny_write_cnt <= i.open_cnt)
        /\ files' = [files EXCEPT ![h].denied = TRUE]
        /\ lastOp' = [op |-> "deny", id |-> id]
        /\ UNCHANGED <<cacheVars, free_map, free_map_file, live>>
        /\ CacheRest /\ UNCHANGED <<openVars, procVars, vmVars>>

\* Opener h allows writes again: inode_allow_write.
FsAllowWrite(h) ==
    LET id == files[h].inode
        i  == InodeOf(open_inodes, id)
    IN  /\ CanCall
        /\ id # NULL
        /\ files[h].denied
        /\ nops' = nops + 1
        /\ IF i.deny_write_cnt > 0 /\ i.deny_write_cnt <= i.open_cnt
           THEN /\ open_inodes' = inode_allow_write(open_inodes, id)
                /\ UNCHANGED panicked
           ELSE /\ panicked' = TRUE
                /\ UNCHANGED open_inodes
        /\ files' = [files EXCEPT ![h].denied = FALSE]
        /\ lastOp' = [op |-> "allow", id |-> id]
        /\ UNCHANGED <<cacheVars, free_map, free_map_file, live>>
        /\ CacheRest /\ UNCHANGED <<openVars, procVars, vmVars>>

NextInode ==
    \/ \E len \in CreateLens :
          \E tdb \in GarbageFor(bytes_to_sectors(len)) : FsCreate(len, tdb)
    \/ \E h \in Handles, s \in Sectors : FsOpen(h, s)
    \/ \E h, h2 \in Handles : FsReopen(h, h2)
    \/ \E h \in Handles : FsClose(h)
    \/ \E h \in Handles : FsRemove(h)
    \/ \E h \in Handles, seed \in 0 .. NumSeeds - 1, size \in IoSizes,
          offset \in IoOffsets :
          \E tdb \in GarbageFor(bytes_to_sectors(offset + size)) :
             FsWrite(h, seed, size, offset, tdb)
    \/ \E h \in Handles, size \in IoSizes, offset \in IoOffsets :
          FsRead(h, size, offset)
    \/ \E h \in Handles : FsDenyWrite(h)
    \/ \E h \in Handles : FsAllowWrite(h)

SpecInode == InitInode /\ [][NextInode]_vars

---------------------------------------------------------------------------
(* Properties of the inode store.                                          *)

\* The read that has just returned followed a write of the same inode, both
\* at offset 0 and of the same size; the write was not denied and the free
\* map had room for every sector the write needed.
ReadBackCase ==
    /\ lastOp.op = "read"
    /\ lastOp.w.op = "write"
    /\ lastOp.offset = 0
    /\ lastOp.w.offset = 0
    /\ lastOp.size = Len(lastOp.w.buf)
    /\ ~lastOp.w.denied
    /\ lastOp.w.room

(* C1: inode round trip.  inode_write_at (b, n, 0) followed by             *)
(* inode_read_at (n, 0) on the same inode returns n and yields exactly b,  *)
(* for every n up to the largest file, whatever the cache evicted.         *)
C1_RoundTrip ==
    ReadBackCase =>
        /\ lastOp.w.ret = lastOp.size
        /\ lastOp.ret = lastOp.size
        /\ lastOp.out = lastOp.w.buf

\* A round trip through the direct and the indirect region that came back.
C1_Witness ==
    /\ ReadBackCase
    /\ lastOp.size > IND_BLOCK * DISK_SECTOR_SIZE
    /\ lastOp.out = lastOp.w.buf

\* The length of the in-memory inode ID (inode_length).
inode_length(id) == InodeOf(open_inodes, id).data.length

(* C4: rollback on out-of-sectors.  When inode_write_at has to extend the  *)
(* file and the free map cannot supply every sector, the write returns 0,  *)
(* the number of used bits of the free map is what it was before the call, *)
(* and the inode's length is what it was before the call.                  *)
C4_Rollback ==
    (lastOp.op = "write" /\ lastOp.outOfSectors /\ ~panicked) =>
        /\ lastOp.ret = 0
        /\ UsedBits(free_map) = lastOp.usedBefore
        /\ inode_length(lastOp.id) = lastOp.lengthBefore

\* A sector as the cache or, if it is not cached, the disk holds it, read as
\* a block of sector numbers.  A number that is no sector reads as zeros.
BlockAt(sector) ==
    IF sector \in Sectors THEN AsBlock(Logical(FsSt, sector)) ELSE Zeros

\* The disk inode of the file at SECTOR: the in-memory copy if it is open.
DiskInodeAt(sector) ==
        Let(inode_open_scan(open_inodes, sector), LAMBDA k :
        IF k # 0 THEN open_inodes[k].data
        ELSE FromImage(Logical(FsSt, sector)))

\* The n-th data sector of disk inode d, as inode_get_sector finds it.
DataSector(d, n) ==
    LET o1 == n - IND_BLOCK
        o2 == n - DindStart
    IN  IF n < IND_BLOCK THEN d.sectors[n + 1]
        ELSE IF n < DindStart
        THEN BlockAt(d.sectors[IND_BLOCK + (o1 \div SIZE_BLOCK) + 1])
                [(o1 % SIZE_BLOCK) + 1]
        ELSE BlockAt(BlockAt(d.sectors[DIND_BLOCK + 1])
                        [(o2 \div SIZE_BLOCK) + 1])[(o2 % SIZE_BLOCK) + 1]

\* The sectors of the file at SECTOR: its inode sector, its data sectors and
\* the indirect and doubly indirect blocks that lead to them.
Reachable(sector) ==
        Let(DiskInodeAt(sector), LAMBDA d :
        Let(Min(bytes_to_sectors(d.length), MaxFileSectors), LAMBDA n :
        {sector}
          \cup {DataSector(d, k) : k \in 0 .. n - 1}
          \cup {d.sectors[IND_BLOCK + q + 1] :
                  q \in {q \in 0 .. DIND_BLOCK - IND_BLOCK - 1 :
                            IND_BLOCK + q * SIZE_BLOCK < n}}
          \cup (IF n > DindStart THEN {d.sectors[DIND_BLOCK + 1]} ELSE {})
          \cup {BlockAt(d.sectors[DIND_BLOCK + 1])[j + 1] :
                  j \in {j \in 0 .. SIZE_BLOCK - 1 :
                            DindStart + j * SIZE_BLOCK < n}}))

UsedSectors == {s \in Sectors : free_map[s]}

(* C5: free-map accounting.  After any sequence of create, write, remove   *)
(* and close, the sectors marked used in the free map are exactly the      *)
(* sectors reachable from the live inodes (data sectors, indirect and      *)
(* doubly indirect blocks, inode sectors; sectors 0 and 1 are the inodes   *)
(* of the free map and the root directory): nothing leaked, nothing        *)
(* reachable that is free, and the two counts are equal.                   *)
C5_FreeMapAccounting ==
    ~panicked =>
        /\ UsedSectors = UNION {Reachable(s) : s \in live}
        /\ UsedBits(free_map) = Cardinality(UNION {Reachable(s) : s \in live})

\* Two user files exist, one reaching into the doubly indirect region, and
\* the accounting is exact.
C5_Witness ==
    /\ ~panicked
    /\ Cardinality(live) >= 4
    /\ \E s \in live : bytes_to_sectors(DiskInodeAt(s).length) > DindStart
    /\ UsedSectors = UNION {Reachable(s) : s \in live}

(* C33: no file shrink.  After any inode_write_at, whether it succeeded or *)
(* failed, the inode's length is at least what it was before the call; and *)
(* after a write of s > 0 bytes at offset o that wrote them all the length *)
(* is the larger of the old length and o + s.                              *)
C33_NoShrink ==
    (lastOp.op = "write" /\ ~panicked) =>
        /\ inode_length(lastOp.id) >= lastOp.lengthBefore
        /\ lastOp.ret = Len(lastOp.buf) =>
              inode_length(lastOp.id)
                  = Max(lastOp.lengthBefore, lastOp.offset + Len(lastOp.buf))

\* A write to a file that reached into an indirect block has failed for
\* lack of sectors.
C33_Witness ==
    /\ lastOp.op = "write"
    /\ ~panicked
    /\ lastOp.outOfSectors
    /\ lastOp.ret = 0
    /\ lastOp.lengthBefore > IND_BLOCK * DISK_SECTOR_SIZE

\* The sectors of the file at SECTOR that are sectors of no other file.
OwnSectors(sector) ==
    Reachable(sector) \ UNION {Reachable(t) : t \in live \ {sector}}

\* A step that is an inode_close.
CloseStep == nops' # nops /\ lastOp'.op = "close"

(* C26: final close.  When the last opener closes an inode marked removed, *)
(* its inode sector, every data sector and every indirect and doubly       *)
(* indirect block of the file become free in the free map and no other     *)
(* sector changes state; when the inode is not marked removed the final    *)
(* close frees no sector; a close that is not the last frees nothing and   *)
(* keeps the inode in the open list.                                       *)
C26_FinalClose ==
    [][CloseStep =>
        LET i == InodeOf(open_inodes, lastOp'.id)
        IN  /\ i.open_cnt > 1 =>
                /\ free_map' = free_map
                /\ lastOp'.id \in InodeIds(open_inodes')
            /\ (i.open_cnt = 1 /\ ~i.removed) => free_map' = free_map
            /\ (i.open_cnt = 1 /\ i.removed) =>
                /\ ~panicked'
                /\ \A s \in Sectors :
                      free_map'[s] = (free_map[s] /\ s \notin OwnSectors(i.sector))]_vars

\* The last close of a removed file whose sectors reach the second indirect
\* block of the doubly indirect block has just returned.
C26_Witness ==
    /\ lastOp.op = "close"
    /\ lastOp.id \notin InodeIds(open_inodes)
    /\ lastOp.removed
    /\ lastOp.sectors > DindStart + SIZE_BLOCK

(* C10: for every in-memory inode deny_write_cnt <= open_cnt, after any    *)
(* sequence of open, reopen, deny_write, allow_write and close; and an     *)
(* inode whose open_cnt has reached 0 is no longer in the open-inode list. *)
C10_DenyAtMostOpen ==
    \A k \in 1 .. Len(open_inodes) :
        /\ open_inodes[k].deny_write_cnt <= open_inodes[k].open_cnt
        /\ open_inodes[k].open_cnt > 0

\* After a close, an inode is still open with as many denials as openers;
\* or the close was the last one and the inode has left the list.
C10_Witness ==
    /\ lastOp.op = "close"
    /\ \/ \E k \in 1 .. Len(open_inodes) :
             /\ open_inodes[k].id = lastOp.id
             /\ open_inodes[k].deny_write_cnt = open_inodes[k].open_cnt
       \/ /\ lastOp.id \notin InodeIds(open_inodes)
          /\ \E h \in Handles : files[h].denied

(* C11: while deny_write_cnt of an inode is positive, inode_write_at on it  *)
(* returns 0 and changes nothing: the inode's length and sector pointers,  *)
(* the data in the cache and on the disk, and the free map are as before.  *)
C11_DenyWrite ==
    [][(nops' # nops /\ lastOp'.op = "write" /\ lastOp'.denied)
          => /\ lastOp'.ret = 0
             /\ UNCHANGED <<buffer_cache, buffer_cache_pos, disk, free_map,
                            free_map_file, open_inodes>>]_vars

\* A write has been refused on an inode whose writes are denied, with free
\* sectors enough for it.
C11_Witness ==
    /\ lastOp.op = "write"
    /\ lastOp.denied
    /\ lastOp.room
    /\ lastOp.ret = 0

\* The last call was a read that follows, on the same inode, a write that
\* made the file grow and began after the file's old end.
GrowthCase ==
    /\ lastOp.op = "read"
    /\ lastOp.w.op = "write"
    /\ lastOp.w.extended
    /\ lastOp.w.ret = Len(lastOp.w.buf)
    /\ lastOp.w.offset > lastOp.w.lengthBefore

C14_WitnessNewSector ==
    /\ GrowthCase
    /\ lastOp.w.lengthBefore = 0
    /\ lastOp.w.offset = DISK_SECTOR_SIZE
    /\ lastOp.offset = 0
    /\ Len(lastOp.out) > DISK_SECTOR_SIZE
    /\ SubSeq(lastOp.out, 1, DISK_SECTOR_SIZE) = Zeros

(* C15: maximum file size.  A create, or a write that extends, which needs *)
(* more data sectors than the direct, indirect and doubly indirect         *)
(* pointers of one inode address returns failure; the free map has as many *)
(* used bits as before the call, and an existing file keeps its length.    *)
C15_MaxSize ==
    /\ (lastOp.op = "create" /\ bytes_to_sectors(lastOp.len) > MaxFileSectors)
          => /\ ~lastOp.ok
             /\ free_map = lastOp.bitsBefore
    /\ (/\ lastOp.op = "write"
        /\ ~lastOp.denied
        /\ bytes_to_sectors(lastOp.offset + Len(lastOp.buf)) > MaxFileSectors)
          => /\ lastOp.ret = 0
             /\ free_map = lastOp.bitsBefore
             /\ InodeOf(open_inodes, lastOp.id).data.length
                   = lastOp.lengthBefore

\* A create has asked for one sector more than an inode addresses.
C15_Witness ==
    /\ lastOp.op = "create"
    /\ bytes_to_sectors(lastOp.len) = MaxFileSectors + 1

---------------------------------------------------------------------------
(* Concurrent inode_open.  Kernel threads are preemptible: a thread can be *)
(* switched out between the scan of open_inodes and the list_push_front.   *)
(* syscall_open calls filesys_open holding filesys_lock; load calls it     *)
(* without the lock.  filesys_open ends in inode_open of the file's inode  *)
(* sector.  The volume holds the root directory and one executable.        *)

\* Number of kernel threads.
NumThreads == 2
\* Number of opens a thread makes.
MaxOpens == 2

Threads == 1 .. NumThreads

\* The formatted volume with one executable of one sector on it.
WithExec ==
    Let(Formatted, LAMBDA f :
    Let(free_map_allocate(f.st, 1), LAMBDA a :
    Let(inode_create(a.st, a.sector, DISK_SECTOR_SIZE, Zeros), LAMBDA c :
    [st |-> c.st, list |-> f.list, sector |-> a.sector])))

\* The files a thread opens: the root directory and the executable.
OpenSectors == live \ {FREE_MAP_SECTOR}

IdleOpener == [pc |-> "idle", kind |-> "none", sector |-> 0, id |-> NULL,
               held |-> <<>>, opens |-> 0]

InitOpen ==
    \E w \in {WithExec} :
        /\ buffer_cache = w.st.bc
        /\ buffer_cache_pos = w.st.pos
        /\ disk = w.st.disk
        /\ free_map = w.st.fm
        /\ free_map_file = w.st.fmfile
        /\ panicked = FALSE
        /\ open_inodes = w.list
        /\ live = {FREE_MAP_SECTOR, ROOT_DIR_SECTOR, w.sector}
        /\ files = <<>>
        /\ lastOp = NoOp
        /\ nops = 0
        /\ read_ahead_list = <<>>
        /\ read_ahead_sema = sema_init(0)
        /\ written = [s \in Sectors |-> Zeros]
        /\ lastRead = NoRead
        /\ filesys_lock = NoThread
        /\ opener = [t \in Threads |-> IdleOpener]
        /\ locks = <<>>
        /\ threads = <<>>
        /\ VmIdle /\ ProcIdle

OpenRest ==
    UNCHANGED <<read_ahead_list, read_ahead_sema, written, lastRead, live,
                files, nops, vmVars, procVars, locks, threads>>

\* syscall_open: lock_acquire (&filesys_lock), then filesys_open.
SyscallOpenBegin(t, s) ==
    /\ opener[t].pc = "idle"
    /\ opener[t].opens < MaxOpens
    /\ filesys_lock = NoThread
    /\ filesys_lock' = t
    /\ opener' = [opener EXCEPT ![t].pc = "scan", ![t].kind = "syscall",
                                ![t].sector = s,
                                ![t].opens = opener[t].opens + 1]
    /\ lastOp' = [op |-> "begin", thread |-> t]
    /\ UNCHANGED <<cacheVars, free_map, free_map_file, panicked, open_inodes>>
    /\ OpenRest

\* load: filesys_open of the executable, filesys_lock not taken.
LoadBegin(t, s) ==
    /\ opener[t].pc = "idle"
    /\ opener[t].opens < MaxOpens
    /\ opener' = [opener EXCEPT ![t].pc = "scan", ![t].kind = "load",
                                ![t].sector = s,
                                ![t].opens = opener[t].opens + 1]
    /\ lastOp' = [op |-> "begin", thread |-> t]
    /\ UNCHANGED <<cacheVars, free_map, free_map_file, panicked, open_inodes,
                   filesys_lock>>
    /\ OpenRest

\* inode_open, the loop over open_inodes: reopen and return on a hit.
OpenScan(t) ==
    LET k == inode_open_scan(open_inodes, opener[t].sector)
    IN  /\ opener[t].pc = "scan"
        /\ IF k # 0
           THEN /\ open_inodes' = inode_reopen(open_inodes, open_inodes[k].id)
                /\ opener' = [opener EXCEPT ![t].pc = "return",
                                            ![t].id = open_inodes[k].id]
           ELSE /\ UNCHANGED open_inodes
                /\ opener' = [opener EXCEPT ![t].pc = "insert"]
        /\ lastOp' = [op |-> "scan", thread |-> t, hit |-> k # 0]
        /\ UNCHANGED <<cacheVars, free_map, free_map_file, panicked,
                       filesys_lock>>
        /\ OpenRest

\* inode_open after a miss: malloc, list_push_front, initialise, read.
OpenInsert(t) ==
    /\ opener[t].pc = "insert"
    /\ \E o \in {inode_open_insert(FsSt, open_inodes, opener[t].sector)} :
          /\ SetFs(o.st)
          /\ open_inodes' = o.list
          /\ opener' = [opener EXCEPT ![t].pc = "return", ![t].id = o.id]
          /\ lastOp' = [op |-> "insert", thread |-> t, id |-> o.id]
    /\ UNCHANGED filesys_lock
    /\ OpenRest

\* filesys_open returns; syscall_open releases filesys_lock.
OpenReturn(t) ==
    /\ opener[t].pc = "return"
    /\ filesys_lock' = IF opener[t].kind = "syscall" THEN NoThread
                       ELSE filesys_lock
    /\ opener' = [opener EXCEPT
                    ![t].pc = "idle", ![t].id = NULL,
                    ![t].held = IF opener[t].id = NULL THEN opener[t].held
                                ELSE Append(opener[t].held, opener[t].id)]
    /\ lastOp' = [op |-> "return", thread |-> t, id |-> opener[t].id]
    /\ UNCHANGED <<cacheVars, free_map, free_map_file, panicked, open_inodes>>
    /\ OpenRest

\* The thread closes the inode it opened first: inode_close.
OpenClose(t) ==
    /\ opener[t].pc = "idle"
    /\ opener[t].held # <<>>
    /\ \E c \in {inode_close(FsSt, open_inodes, Head(opener[t].held))} :
          /\ SetFs(c.st)
          /\ open_inodes' = c.list
    /\ opener' = [opener EXCEPT ![t].held = Tail(opener[t].held)]
    /\ lastOp' = [op |-> "close", id |-> Head(opener[t].held)]
    /\ UNCHANGED filesys_lock
    /\ OpenRest

NextOpen ==
    \/ \E t \in Threads, s \in OpenSectors : SyscallOpenBegin(t, s)
    \/ \E t \in Threads, s \in OpenSectors : LoadBegin(t, s)
    \/ \E t \in Threads : OpenScan(t)
    \/ \E t \in Threads : OpenInsert(t)
    \/ \E t \in Threads : OpenReturn(t)
    \/ \E t \in Threads : OpenClose(t)

SpecOpen == InitOpen /\ [][NextOpen]_vars

(* C9: at most one in-memory inode exists per inode sector at any time,    *)
(* also when two threads open the same sector concurrently, one in         *)
(* syscall_open under filesys_lock and one in load without it: the         *)
(* open-inode list never holds two entries with the same sector, and an    *)
(* open of a sector that is already open returns the inode that is there.  *)
C9_OneInodePerSector ==
    \A i, j \in 1 .. Len(open_inodes) :
        i # j => open_inodes[i].sector # open_inodes[j].sector

\* Two threads have opened the same sector one after the other and share
\* one inode with open_cnt 2.
C9_Witness ==
    /\ \E k \in 1 .. Len(open_inodes) :
          /\ open_inodes[k].open_cnt = 2
          /\ \A t \in Threads : open_inodes[k].id \in
                {opener[t].held[m] : m \in 1 .. Len(opener[t].held)}
    /\ C9_OneInodePerSector

---------------------------------------------------------------------------
(* vm/frame.c, vm/page.c, vm/swap.c and the mmap calls of                  *)
(* userprog/syscall.c.                                                     *)
(*                                                                         *)
(* Units.  A page holds one value (its PGSIZE bytes); the mapped file is   *)
(* FilePages pages long, so every file-backed page has read_bytes = PGSIZE *)
(* and zero_bytes = 0, and file offsets count pages from 1.  A kernel page *)
(* is a number of KPages, NULL is no page.  A pointer to a supplemental    *)
(* page table entry is the pair <<process, upage>>.  The state the         *)
(* operators thread is the record                                          *)
(*   [spt, pd, ft, pos, pool, fr, st, sd, mf, panic]                       *)
(* of the tables, the frame list and clock position, the free user pages,  *)
(* the page contents, the swap bitmap and swap disk, the mapped file and   *)
(* the panic flag.                                                         *)

NumProcs      == 2
FilePages     == 2
NumOtherPages == 1
NumUserFrames == 1
NumSwapSlots  == 2
MaxPageVal    == 1
MaxVmOps      == 10

Procs      == 1 .. NumProcs
MapPages   == 1 .. FilePages              \* the region an mmap covers
UPages     == 1 .. FilePages + NumOtherPages
OtherPages == UPages \ MapPages           \* stack and segment pages
KPages     == 1 .. NumUserFrames
KernelPage == NumUserFrames + 1           \* a page of the kernel pool
Slots      == 0 .. NumSwapSlots - 1
PageVals   == 0 .. MaxPageVal
ExecContent == MaxPageVal                 \* every page of the executable

NoPte  == [type |-> "none"]
Uninit == [uninit |-> TRUE]               \* the union of a PAGE_ZERO entry
NoPde  == [present |-> FALSE, kpage |-> NULL, writable |-> FALSE,
           accessed |-> FALSE, dirty |-> FALSE]
NoMap  == [mapped |-> FALSE]
NoLoad == [upage |-> NULL, kpage |-> NULL]
Exiting == [upage |-> NULL, kpage |-> NULL, exiting |-> TRUE]

\* suppl_pt_set_zero: hash_insert leaves an entry that is already there.
suppl_pt_set_zero(vs, p, u) ==
    LET pte == [type |-> "PAGE_ZERO", kpage |-> NULL, dirty |-> FALSE,
                ext |-> Uninit]
    IN  IF vs.spt[p][u].type = "none" THEN [vs EXCEPT !.spt[p][u] = pte]
        ELSE vs

\* suppl_pt_set_file.  The union member holds the file fields.
suppl_pt_set_file(vs, p, u, file, ofs, writable) ==
    LET pte == [type |-> "PAGE_FILE", kpage |-> NULL, dirty |-> FALSE,
                ext |-> [file |-> file, ofs |-> ofs, writable |-> writable]]
    IN  IF vs.spt[p][u].type = "none" THEN [vs EXCEPT !.spt[p][u] = pte]
        ELSE vs

\* swap_out that leaves the slot marked empty.
swap_out_NoMark(vs, kpage) ==
    LET empty == {i \in Slots : vs.st[i]}
        idx   == IF empty = {} THEN BITMAP_ERROR
                 ELSE CHOOSE i \in empty : \A j \in empty : i <= j
    IN  IF idx = BITMAP_ERROR THEN [vs |-> vs, idx |-> BITMAP_ERROR]
        ELSE [vs |-> [vs EXCEPT !.sd[idx] = vs.fr[kpage]], idx |-> idx]

\* swap_in without its test of the slot's bit.
swap_in_NoTest(vs, kpage, idx) ==
    IF idx >= NumSwapSlots THEN [vs |-> vs, ok |-> FALSE]
    ELSE [vs |-> [vs EXCEPT !.fr[kpage] = vs.sd[idx], !.st[idx] = TRUE],
          ok |-> TRUE]

\* swap_out that takes slot 0 when no slot is empty.
swap_out_Overwrite(vs, kpage) ==
    LET empty == {i \in Slots : vs.st[i]}
        idx   == IF empty = {} THEN 0
                 ELSE CHOOSE i \in empty : \A j \in empty : i <= j
    IN  [vs  |-> [vs EXCEPT !.sd[idx] = vs.fr[kpage], !.st[idx] = FALSE],
         idx |-> idx]

\* swap_out: the first empty slot (bit TRUE) takes the page.
swap_out(vs, kpage) ==
    LET empty == {i \in Slots : vs.st[i]}
    IN
             Let(IF empty = {} THEN BITMAP_ERROR
                 ELSE CHOOSE i \in empty : \A j \in empty : i <= j, LAMBDA idx :
        IF idx = BITMAP_ERROR THEN [vs |-> vs, idx |-> BITMAP_ERROR]
        ELSE [vs  |-> [vs EXCEPT !.sd[idx] = vs.fr[kpage], !.st[idx] = FALSE],
              idx |-> idx])

\* swap_in: fails on an index out of range or an empty slot.
swap_in(vs, kpage, idx) ==
    IF idx >= NumSwapSlots THEN [vs |-> vs, ok |-> FALSE]
    ELSE IF vs.st[idx] THEN [vs |-> vs, ok |-> FALSE]
    ELSE [vs |-> [vs EXCEPT !.fr[kpage] = vs.sd[idx], !.st[idx] = TRUE],
          ok |-> TRUE]

\* swap_remove
swap_remove(vs, idx) == [vs EXCEPT !.st[idx] = TRUE]

\* suppl_pt_update_dirty that does not read the page directory.
suppl_pt_update_dirty_NoBit(vs, p, u) ==
    [vs |-> vs, dirty |-> vs.spt[p][u].dirty]

\* suppl_pt_update_dirty.  The dirty bit of the kernel alias of the page is
\* cleared at the end of a load and no call of the model writes through the
\* alias afterwards, so only the bit of upage is read.
suppl_pt_update_dirty(vs, p, u) ==
    LET pte == vs.spt[p][u]
        d   == pte.dirty \/ vs.pd[p][u].dirty
    IN  IF pte.kpage = NULL THEN [vs |-> vs, dirty |-> pte.dirty]
        ELSE [vs |-> [vs EXCEPT !.spt[p][u].dirty = d], dirty |-> d]

\* frame_next_circ: ASSERT (!list_empty (&frame_table)); position 0 is
\* list_tail.
frame_next_circ(vs) ==
    IF vs.ft = <<>> THEN [vs EXCEPT !.panic = TRUE]
    ELSE [vs EXCEPT !.pos = IF vs.pos = Len(vs.ft) \/ vs.pos = 0 THEN 1
                            ELSE vs.pos + 1]

\* frame_to_evict_clock that takes the next frame whatever its accessed bit.
frame_to_evict_clock_NoSweep(vs) == frame_next_circ(vs)

\* frame_to_evict_clock: the victim is the frame at the returned position.
\* pagedir_is_accessed reads the bit of the entry whether or not the page
\* is present.
RECURSIVE frame_to_evict_clock(_)
frame_to_evict_clock(vs) ==
        Let(frame_next_circ(vs), LAMBDA n :
    LET o == n.ft[n.pos].suppl_pte
    IN  IF n.panic THEN n
        ELSE IF n.pd[o[1]][o[2]].accessed
             THEN frame_to_evict_clock(
                      [n EXCEPT !.pd[o[1]][o[2]].accessed = FALSE])
        ELSE n)

\* frame_evict_and_get: [vs, f], f the position of the frame or NULL.  The
\* switch falls through from PAGE_FILE to PAGE_ZERO to PAGE_SWAP.
frame_evict_and_get(vs) ==
    Let(frame_to_evict_clock(vs), LAMBDA c :
    IF c.panic THEN [vs |-> c, f |-> NULL]
    ELSE
    LET f   == c.pos
        p   == c.ft[f].suppl_pte[1]
        u   == c.ft[f].suppl_pte[2]
        pte == c.spt[p][u]
    IN
    IF pte.type = "none"                    \* default: NOT_REACHED ()
        THEN [vs |-> [c EXCEPT !.panic = TRUE], f |-> NULL]
    ELSE
    Let(suppl_pt_update_dirty(c, p, u), LAMBDA ud :
    Let(IF pte.type = "PAGE_FILE" /\ ~pte.ext.writable
            THEN [vs |-> c, swap |-> FALSE]
        ELSE IF pte.type \in {"PAGE_FILE", "PAGE_ZERO"}
            THEN [vs |-> ud.vs, swap |-> ud.dirty]
        ELSE [vs |-> c, swap |-> TRUE], LAMBDA sw :
    IF ~sw.swap
        THEN [vs |-> [suppl_pt_update_dirty(sw.vs, p, u).vs
                          EXCEPT !.spt[p][u].kpage = NULL,
                                 !.pd[p][u].present = FALSE],
              f  |-> f]
    ELSE
    Let(swap_out(sw.vs, c.ft[f].kpage), LAMBDA so :
    IF so.idx = BITMAP_ERROR THEN [vs |-> so.vs, f |-> NULL]
    ELSE
    Let([so.vs EXCEPT !.spt[p][u].type = "PAGE_SWAP",
                      !.spt[p][u].ext = [swap_index |-> so.idx]], LAMBDA a :
        [vs |-> [suppl_pt_update_dirty(a, p, u).vs
                     EXCEPT !.spt[p][u].kpage = NULL,
                            !.pd[p][u].present = FALSE],
         f  |-> f])))))

\* frame_alloc, all of it under frame_table_lock: [vs, kpage].
\* palloc_get_page (PAL_USER) hands out the lowest free user page.
frame_alloc(vs, p, u) ==
    LET kpage == IF vs.pool = {} THEN NULL
                 ELSE CHOOSE k \in vs.pool : \A j \in vs.pool : k <= j
    IN  IF kpage # NULL
        THEN [vs    |-> [vs EXCEPT
                           !.pool = vs.pool \ {kpage},
                           !.ft = Append(vs.ft, [kpage |-> kpage,
                                                 suppl_pte |-> <<p, u>>])],
              kpage |-> kpage]
        ELSE Let(frame_evict_and_get(vs), LAMBDA e :
                 IF e.f = NULL THEN [vs |-> e.vs, kpage |-> NULL]
                 ELSE [vs    |-> [e.vs EXCEPT !.ft[e.f].suppl_pte = <<p, u>>],
                       kpage |-> e.vs.ft[e.f].kpage])

\* suppl_pt_load_page without its test of the entry.
suppl_pt_load_page_NoTest(vs, p, u) == frame_alloc(vs, p, u)

\* suppl_pt_load_page up to the return of frame_alloc: [vs, kpage], kpage
\* being NULL when the call returns false here.
suppl_pt_load_page(vs, p, u) ==
    IF vs.spt[p][u].type = "none" \/ vs.spt[p][u].kpage # NULL
    THEN [vs |-> vs, kpage |-> NULL]
    ELSE frame_alloc(vs, p, u)

\* frame_search: the position of the first frame of kpage, or NULL.
frame_search(ft, kpage) ==
    LET hits == {i \in 1 .. Len(ft) : ft[i].kpage = kpage}
    IN  IF hits = {} THEN NULL
        ELSE CHOOSE i \in hits : \A j \in hits : i <= j

\* frame_remove that leaves frame_table_pos on the element it frees.
frame_remove_KeepPos(vs, kpage) ==
        Let(frame_search(vs.ft, kpage), LAMBDA i :
        IF i = NULL THEN vs
        ELSE [vs EXCEPT
                !.pos = IF vs.pos > i THEN vs.pos - 1 ELSE vs.pos,
                !.ft = RemoveAt(vs.ft, i)])

\* frame_remove: the clock position moves to the next element when it is
\* on the frame that goes.
frame_remove(vs, kpage) ==
        Let(frame_search(vs.ft, kpage), LAMBDA i :
        IF i = NULL THEN vs
        ELSE [vs EXCEPT
                !.pos = IF vs.pos = i
                            THEN (IF i = Len(vs.ft) THEN 0 ELSE i)
                        ELSE IF vs.pos > i THEN vs.pos - 1
                        ELSE vs.pos,
                !.ft = RemoveAt(vs.ft, i)])

\* palloc_free_page, as called by frame.c, syscall.c and pagedir_destroy:
\* freeing a page that is free already fails palloc's ASSERT.
palloc_free_page(vs, kpage) ==
    IF kpage \in vs.pool THEN [vs EXCEPT !.panic = TRUE]
    ELSE [vs EXCEPT !.pool = vs.pool \cup {kpage}]

\* frame_free
frame_free(vs, kpage) == palloc_free_page(frame_remove(vs, kpage), kpage)

\* The page of a file that file_read delivers at ofs: the executable is
\* write-denied and constant, the mapped file is mf.
FileContent(vs, file, ofs) ==
    IF file = "exec" THEN ExecContent ELSE vs.mf[ofs]

\* suppl_pt_load_page that installs every page writable.
suppl_pt_load_page_fill_Writable(vs, p, u, kpage) ==
    LET pte      == vs.spt[p][u]
    IN
        Let(
            IF pte.type = "PAGE_ZERO"
                THEN [vs |-> [vs EXCEPT !.fr[kpage] = 0], ok |-> TRUE]
            ELSE IF pte.type = "PAGE_FILE"
                THEN [vs |-> [vs EXCEPT !.fr[kpage] =
                                FileContent(vs, pte.ext.file, pte.ext.ofs)],
                      ok |-> TRUE]
            ELSE swap_in(vs, kpage, pte.ext.swap_index), LAMBDA filled :
    LET writable == TRUE
    IN  IF ~filled.ok THEN frame_free(filled.vs, kpage)
        ELSE [filled.vs EXCEPT
                !.pd[p][u] = [present |-> TRUE, kpage |-> kpage,
                              writable |-> writable, accessed |-> FALSE,
                              dirty |-> FALSE],
                !.spt[p][u].kpage = kpage])

\* suppl_pt_load_page from its switch on: the frame is kpage, and
\* frame_table_lock was released when frame_alloc returned.  The entry's
\* type and union are read here, not when the frame was obtained.
suppl_pt_load_page_fill(vs, p, u, kpage) ==
    LET pte      == vs.spt[p][u]
    IN
        Let(
            IF pte.type = "PAGE_ZERO"
                THEN [vs |-> [vs EXCEPT !.fr[kpage] = 0], ok |-> TRUE]
            ELSE IF pte.type = "PAGE_FILE"
                THEN [vs |-> [vs EXCEPT !.fr[kpage] =
                                FileContent(vs, pte.ext.file, pte.ext.ofs)],
                      ok |-> TRUE]
            ELSE swap_in(vs, kpage, pte.ext.swap_index), LAMBDA filled :
    LET writable == IF pte.type = "PAGE_FILE" THEN pte.ext.writable ELSE TRUE
    IN  IF ~filled.ok THEN frame_free(filled.vs, kpage)
        ELSE [filled.vs EXCEPT
                !.pd[p][u] = [present |-> TRUE, kpage |-> kpage,
                              writable |-> writable, accessed |-> FALSE,
                              dirty |-> FALSE],
                !.spt[p][u].kpage = kpage])

\* suppl_pt_free_pte: the entry leaves the table and is freed.
suppl_pt_free_pte(vs, p, u) ==
    LET pte == vs.spt[p][u]
    IN
           Let(IF pte.kpage # NULL THEN frame_remove(vs, pte.kpage)
               ELSE IF pte.type = "PAGE_SWAP"
                   THEN swap_remove(vs, pte.ext.swap_index)
               ELSE vs, LAMBDA a :
        [a EXCEPT !.spt[p][u] = NoPte])

\* suppl_pt_clear_page, for a page that has an entry.
suppl_pt_clear_page(vs, p, u) ==
    suppl_pt_free_pte([vs EXCEPT !.pd[p][u].present = FALSE], p, u)

\* suppl_pt_destroy: hash_destroy applies suppl_pt_free_pte to every entry.
RECURSIVE DestroyFrom(_, _, _)
DestroyFrom(vs, p, u) ==
    IF u > FilePages + NumOtherPages THEN vs
    ELSE DestroyFrom(IF vs.spt[p][u].type = "none" THEN vs
                     ELSE suppl_pt_free_pte(vs, p, u), p, u + 1)

suppl_pt_destroy(vs, p) == DestroyFrom(vs, p, 1)

\* pagedir_destroy: every present page goes back to palloc.
RECURSIVE PagedirFrom(_, _, _)
PagedirFrom(vs, p, u) ==
    IF u > FilePages + NumOtherPages \/ vs.panic THEN vs
    ELSE PagedirFrom(IF vs.pd[p][u].present
                         THEN palloc_free_page(vs, vs.pd[p][u].kpage)
                     ELSE vs, p, u + 1)

pagedir_destroy(vs, p) ==
        Let(PagedirFrom(vs, p, 1), LAMBDA a :
        [a EXCEPT !.pd[p] = [u \in UPages |-> NoPde]])

\* Addresses count in units of which PGSIZE make a page: user page u begins
\* at address u * PGSIZE, page 0 holds the null pointer and PHYS_BASE
\* follows the last user page.
PGSIZE     == 2
PHYS_BASE  == (FilePages + NumOtherPages + 1) * PGSIZE
FD_MIN     == 2
MAPID_MIN  == 0
MAP_FAILED == -1

pg_ofs(addr)        == addr % PGSIZE
pg_no(addr)         == addr \div PGSIZE
is_user_vaddr(addr) == addr < PHYS_BASE

\* A process after start_process that has opened the mapped file and an
\* empty file: its file_list, the struct files that are open, its
\* mmap_list and mapid_next.
\* A struct file is named by a number from 1; open_files gives the inode of
\* each one that is open.
ProcStart ==
    [file_list  |-> <<[fd |-> FD_MIN, file |-> 1],
                      [fd |-> FD_MIN + 1, file |-> 2]>>,
     open_files |-> <<"mfile", "empty">>,
     mmap_list  |-> <<>>,
     mapid_next |-> MAPID_MIN]

\* process_get_file: the first element of file_list with the descriptor.
process_get_file(pr, fd) ==
    LET hits == {i \in DOMAIN pr.file_list : pr.file_list[i].fd = fd}
    IN  IF hits = {} THEN NULL
        ELSE pr.file_list[CHOOSE i \in hits : \A j \in hits : i <= j].file

file_length(pr, f) ==
    IF pr.open_files[f] = "mfile" THEN FilePages * PGSIZE ELSE 0

\* file_reopen: a new struct file on the same inode.
file_reopen(pr, f) ==
    LET used == DOMAIN pr.open_files
        new  == CHOOSE i \in 1 .. Cardinality(used) + 1 : i \notin used
    IN  [pr |-> [pr EXCEPT !.open_files =
                    [g \in used \cup {new} |->
                        IF g = new THEN pr.open_files[f] ELSE pr.open_files[g]]],
         file |-> new]

\* file_close, which does nothing for NULL.
file_close(pr, f) ==
    IF f = NULL THEN pr
    ELSE [pr EXCEPT !.open_files =
            [g \in DOMAIN pr.open_files \ {f} |-> pr.open_files[g]]]

\* process_set_mmap: MAP_FAILED when malloc fails.
process_set_mmap(pr, f, addr, size, mallocs) ==
    IF mallocs = 0 THEN [pr |-> pr, id |-> MAP_FAILED]
    ELSE [pr |-> [pr EXCEPT !.mmap_list = Append(@,
                                [id |-> pr.mapid_next, file |-> f,
                                 addr |-> addr, size |-> size]),
                            !.mapid_next = @ + 1],
          id |-> pr.mapid_next]

\* The loop of syscall_mmap: one writable PAGE_FILE entry per page of the
\* file.  mallocs is the number of malloc calls that still succeed;
\* suppl_pt_set_file returns false only when its malloc fails, and the
\* loop then stops with fault_ofs at the page it could not register.
RECURSIVE MmapFrom(_, _, _, _, _, _, _)
MmapFrom(vs, p, addr, f, ofs, size, mallocs) ==
    IF ofs >= size
        THEN [vs |-> vs, fault_ofs |-> size, ok |-> TRUE, mallocs |-> mallocs]
    ELSE IF mallocs = 0
        THEN [vs |-> vs, fault_ofs |-> ofs, ok |-> FALSE, mallocs |-> 0]
    ELSE MmapFrom(suppl_pt_set_file(vs, p, pg_no(addr + ofs), "mfile",
                                    ofs \div PGSIZE + 1, TRUE),
                  p, addr, f, ofs + PGSIZE, size, mallocs - 1)

\* The fail label of syscall_mmap: suppl_pt_clear_page for every page below
\* fault_ofs, then file_close.
RECURSIVE MmapClearFrom(_, _, _, _, _)
MmapClearFrom(vs, p, addr, ofs, fault_ofs) ==
    IF ofs >= fault_ofs THEN vs
    ELSE MmapClearFrom(suppl_pt_clear_page(vs, p, pg_no(addr + ofs)),
                       p, addr, ofs + PGSIZE, fault_ofs)

syscall_mmap_fail(vs, pr, p, addr, f, fault_ofs) ==
    [vs |-> MmapClearFrom(vs, p, addr, 0, fault_ofs),
     pr |-> file_close(pr, f), ret |-> MAP_FAILED, fault_ofs |-> fault_ofs]

\* syscall_mmap (fd, addr) by process p, whose record is pr.
syscall_mmap(vs, pr, p, fd, addr, mallocs) ==
    IF addr = NULL \/ ~is_user_vaddr(addr) \/ pg_ofs(addr) # 0
        THEN syscall_mmap_fail(vs, pr, p, addr, NULL, -1)
    ELSE IF process_get_file(pr, fd) = NULL
        THEN syscall_mmap_fail(vs, pr, p, addr, NULL, -1)
    ELSE
    LET ro   == file_reopen(pr, process_get_file(pr, fd))
        f    == ro.file
        size == file_length(ro.pr, f)
    IN  IF size = 0 THEN syscall_mmap_fail(vs, ro.pr, p, addr, f, -1)
        ELSE
        Let(MmapFrom(vs, p, addr, f, 0, size, mallocs), LAMBDA m :
        IF ~m.ok THEN syscall_mmap_fail(m.vs, ro.pr, p, addr, f, m.fault_ofs)
        ELSE
        Let(process_set_mmap(ro.pr, f, addr, size, m.mallocs), LAMBDA sm :
        IF sm.id = MAP_FAILED
            THEN syscall_mmap_fail(m.vs, ro.pr, p, addr, f, m.fault_ofs)
        ELSE [vs |-> m.vs, pr |-> sm.pr, ret |-> sm.id,
              fault_ofs |-> m.fault_ofs]))

\* mmap_unmap_item, one page per turn of its loop.  For a page on the swap
\* disk that is dirty the code swaps the slot into a fresh kernel page and
\* then hands pte->kpage, which is NULL, to file_write_at: the copy reads
\* address 0 in kernel mode and faults with filesys_lock held, which ends
\* the kernel before any byte reaches the file.
RECURSIVE UnmapFrom(_, _, _)
UnmapFrom(vs, p, ofs) ==
    IF ofs > FilePages THEN vs
    ELSE IF vs.spt[p][ofs].type = "none" THEN UnmapFrom(vs, p, ofs + 1)
    ELSE
    LET pte == vs.spt[p][ofs]
    IN
    Let(suppl_pt_update_dirty(vs, p, ofs), LAMBDA ud :
    Let(IF pte.kpage # NULL
            THEN LET w == IF ud.dirty
                          THEN [ud.vs EXCEPT !.mf[ofs] = ud.vs.fr[pte.kpage]]
                          ELSE ud.vs
                 IN  palloc_free_page(frame_remove(w, pte.kpage), pte.kpage)
        ELSE IF pte.type = "PAGE_SWAP"
            THEN IF ud.dirty
                 THEN [swap_in(ud.vs, KernelPage, pte.ext.swap_index).vs
                         EXCEPT !.panic = TRUE]
                 ELSE swap_remove(ud.vs, pte.ext.swap_index)
        ELSE vs, LAMBDA a :
    IF a.panic THEN a
    ELSE UnmapFrom([a EXCEPT !.pd[p][ofs].present = FALSE,
                             !.spt[p][ofs] = NoPte], p, ofs + 1)))

mmap_unmap_item(vs, p) == UnmapFrom(vs, p, 1)

\* process_exit up to suppl_pt_destroy: the mappings, then the
\* supplemental page table.  The frames of the process leave the frame
\* table here; its pages stay allocated until pagedir_destroy.
process_exit(vs, p, mapped) ==
        Let(IF mapped THEN mmap_unmap_item(vs, p) ELSE vs, LAMBDA a :
        IF a.panic THEN a ELSE suppl_pt_destroy(a, p))

---------------------------------------------------------------------------
(* User processes on a machine with NumUserFrames user pages and           *)
(* NumSwapSlots swap slots.  Each process is one thread; the kernel is     *)
(* preemptible, so another process can run between two lock-protected      *)
(* sections of a call.  suppl_pt_load_page is therefore two steps: the     *)
(* frame_alloc, which holds frame_table_lock, and the rest, which holds no *)
(* lock.  Every other call is one step.                                    *)

VmSt ==
    [spt |-> sptes, pd |-> pagedir, ft |-> frame_table,
     pos |-> frame_table_pos, pool |-> user_pool, fr |-> frames,
     st |-> swap_table, sd |-> swap_disk, mf |-> mfile, panic |-> panicked]

SetVm(vs) ==
    /\ sptes' = vs.spt
    /\ pagedir' = vs.pd
    /\ frame_table' = vs.ft
    /\ frame_table_pos' = vs.pos
    /\ user_pool' = vs.pool
    /\ frames' = vs.fr
    /\ swap_table' = vs.st
    /\ swap_disk' = vs.sd
    /\ mfile' = vs.mf
    /\ panicked' = vs.panic

NoWrites == [u \in MapPages |-> <<>>]
OtherOp  == [op |-> "other", proc |-> NULL, wrote |-> NoWrites]

\* frame_table_init, swap_table_init, and processes whose load has created
\* an empty supplemental page table and page directory; the mapped file
\* holds zeros.
VmTables ==
    /\ sptes = [p \in Procs |-> [u \in UPages |-> NoPte]]
    /\ pagedir = [p \in Procs |-> [u \in UPages |-> NoPde]]
    /\ frame_table = <<>>
    /\ frame_table_pos = 0
    /\ user_pool = KPages
    /\ frames = [k \in KPages \cup {KernelPage} |-> 0]
    /\ swap_table = [i \in Slots |-> TRUE]
    /\ swap_disk = [i \in Slots |-> 0]
    /\ mfile = [i \in 1 .. FilePages |-> 0]
    /\ mmaps = [p \in Procs |-> NoMap]
    /\ loading = [p \in Procs |-> NoLoad]
    /\ vmlog = [last |-> OtherOp, wrote |-> [p \in Procs |-> NoWrites]]
    /\ vmops = 0
    /\ buffer_cache = [i \in 1 .. BUFFER_CACHE_NUM |-> EmptyEntry]
    /\ buffer_cache_pos = 0
    /\ read_ahead_list = <<>>
    /\ read_ahead_sema = sema_init(0)
    /\ disk = [s \in Sectors |-> Zeros]
    /\ written = [s \in Sectors |-> Zeros]
    /\ lastRead = NoRead
    /\ InodeIdle

VmStart == VmTables /\ OpenIdle

InitVM == VmStart /\ ProcIdle

VmRest ==
    /\ vmops' = vmops + 1
    /\ UNCHANGED <<cacheVars, obsVars, free_map, free_map_file, open_inodes,
                   live, files, lastOp, nops, openVars, procVars>>

CanStep   == ~panicked /\ vmops < MaxVmOps
CanRun(p) == CanStep /\ loading[p] = NoLoad

\* setup_stack: suppl_pt_set_zero for a stack page.
SetupStack(p, u) ==
    /\ CanRun(p)
    /\ sptes[p][u].type = "none"
    /\ SetVm(suppl_pt_set_zero(VmSt, p, u))
    /\ vmlog' = [vmlog EXCEPT !.last = OtherOp]
    /\ UNCHANGED <<mmaps, loading>>
    /\ VmRest

\* load_segment: suppl_pt_set_file for a page of the executable.
LoadSegment(p, u, writable) ==
    /\ CanRun(p)
    /\ sptes[p][u].type = "none"
    /\ SetVm(suppl_pt_set_file(VmSt, p, u, "exec", 1, writable))
    /\ vmlog' = [vmlog EXCEPT !.last = OtherOp]
    /\ UNCHANGED <<mmaps, loading>>
    /\ VmRest

\* syscall_mmap; a process holds one mapping at a time.
Mmap(p) ==
    /\ CanRun(p)
    /\ ~mmaps[p].mapped
    /\ SetVm(syscall_mmap(VmSt, ProcStart, p, FD_MIN, PGSIZE,
                          FilePages + 1).vs)
    /\ mmaps' = [mmaps EXCEPT ![p] = [mapped |-> TRUE]]
    /\ vmlog' = [vmlog EXCEPT !.last = OtherOp, !.wrote[p] = NoWrites]
    /\ UNCHANGED loading
    /\ VmRest

\* A page fault on u: suppl_pt_load_page up to the return of frame_alloc.
\* When no frame can be had the load fails.  vmlog.last keeps what the call
\* did: for a frame_alloc whether the pool was empty, the entry that owned
\* the frame the clock stopped on, and how many accessed bits were cleared.
LoadPageBegin(p, u) ==
    /\ CanRun(p)
    /\ \E a \in {suppl_pt_load_page(VmSt, p, u)} :
          /\ SetVm(a.vs)
          /\ loading' = IF a.kpage = NULL THEN loading
                        ELSE [loading EXCEPT ![p] = [upage |-> u,
                                                      kpage |-> a.kpage]]
          /\ vmlog' = [vmlog EXCEPT !.last =
                          IF sptes[p][u].type = "none"
                          THEN [op |-> "load", entry |-> "none",
                                ret |-> a.kpage # NULL]
                          ELSE IF sptes[p][u].kpage # NULL
                          THEN [op |-> "load", entry |-> "resident",
                                ret |-> a.kpage # NULL]
                          ELSE [op |-> "frame_alloc", proc |-> p,
                                upage |-> u, kpage |-> a.kpage,
                                evict |-> user_pool = {},
                                victim |->
                                    IF user_pool = {} /\ frame_table # <<>>
                                    THEN frame_table[a.vs.pos].suppl_pte
                                    ELSE <<>>,
                                cleared |-> Cardinality(
                                    {pu \in Procs \X UPages :
                                        /\ pagedir[pu[1]][pu[2]].accessed
                                        /\ ~a.vs.pd[pu[1]][pu[2]].accessed})]]
    /\ UNCHANGED mmaps
    /\ VmRest

\* The rest of suppl_pt_load_page: fill the frame, install it, set kpage.
LoadPageFinish(p) ==
    /\ CanStep
    /\ loading[p] # NoLoad
    /\ loading[p] # Exiting
    /\ SetVm(suppl_pt_load_page_fill(VmSt, p, loading[p].upage,
                                     loading[p].kpage))
    /\ loading' = [loading EXCEPT ![p] = NoLoad]
    /\ vmlog' = [vmlog EXCEPT !.last = OtherOp]
    /\ UNCHANGED mmaps
    /\ VmRest

\* The process stores v in a page that is present and writable.
UserWrite(p, u, v) ==
    /\ CanRun(p)
    /\ pagedir[p][u].present
    /\ pagedir[p][u].writable
    /\ frames' = [frames EXCEPT ![pagedir[p][u].kpage] = v]
    /\ pagedir' = [pagedir EXCEPT ![p][u].accessed = TRUE,
                                  ![p][u].dirty = TRUE]
    /\ vmlog' = [vmlog EXCEPT
                   !.last = OtherOp,
                   !.wrote[p] = IF mmaps[p].mapped /\ u \in MapPages
                                THEN [vmlog.wrote[p] EXCEPT ![u] = <<v>>]
                                ELSE vmlog.wrote[p]]
    /\ UNCHANGED <<sptes, frame_table, frame_table_pos, user_pool,
                   swap_table, swap_disk, mfile, panicked, mmaps, loading>>
    /\ VmRest

\* The process reads a page that is present.
UserRead(p, u) ==
    /\ CanRun(p)
    /\ pagedir[p][u].present
    /\ ~pagedir[p][u].accessed
    /\ pagedir' = [pagedir EXCEPT ![p][u].accessed = TRUE]
    /\ vmlog' = [vmlog EXCEPT !.last = OtherOp]
    /\ UNCHANGED <<sptes, frame_table, frame_table_pos, user_pool, frames,
                   swap_table, swap_disk, mfile, panicked, mmaps, loading>>
    /\ VmRest

\* syscall_munmap: mmap_unmap_item.
Munmap(p) ==
    /\ CanRun(p)
    /\ mmaps[p].mapped
    /\ SetVm(mmap_unmap_item(VmSt, p))
    /\ mmaps' = [mmaps EXCEPT ![p] = NoMap]
    /\ vmlog' = [vmlog EXCEPT
                   !.last = [op |-> "munmap", proc |-> p,
                             wrote |-> vmlog.wrote[p]],
                   !.wrote[p] = NoWrites]
    /\ UNCHANGED loading
    /\ VmRest

\* setup_stack gives up: suppl_pt_clear_page of the stack page.  The log
\* keeps whether the clock position was on the frame of the page.
ClearPage(p, u) ==
    /\ CanRun(p)
    /\ sptes[p][u].type = "PAGE_ZERO" \/ sptes[p][u].type = "PAGE_SWAP"
    /\ SetVm(suppl_pt_clear_page(VmSt, p, u))
    /\ vmlog' = [vmlog EXCEPT !.last =
                    [op |-> "clear", proc |-> p, wrote |-> NoWrites,
                     cursor |-> /\ frame_table_pos # 0
                                /\ sptes[p][u].kpage # NULL
                                /\ frame_table[frame_table_pos].kpage
                                       = sptes[p][u].kpage]]
    /\ UNCHANGED <<mmaps, loading>>
    /\ VmRest

\* process_exit up to suppl_pt_destroy.  Each of mmap_unmap_item,
\* frame_remove and swap_remove takes its lock for itself; other processes
\* run again before pagedir_destroy.
ProcessExit(p) ==
    /\ CanRun(p)
    /\ \E u \in UPages : sptes[p][u].type # "none"
    /\ SetVm(process_exit(VmSt, p, mmaps[p].mapped))
    /\ mmaps' = [mmaps EXCEPT ![p] = NoMap]
    /\ loading' = [loading EXCEPT ![p] = Exiting]
    /\ vmlog' = [vmlog EXCEPT
                   !.last = [op |-> IF mmaps[p].mapped THEN "munmap"
                                    ELSE "other",
                             proc |-> p, wrote |-> vmlog.wrote[p]],
                   !.wrote[p] = NoWrites]
    /\ VmRest

\* The end of process_exit: pagedir_destroy gives the pages that are
\* present back to palloc; the next process to start takes the place of
\* this one.
PagedirDestroy(p) ==
    /\ CanStep
    /\ loading[p] = Exiting
    /\ SetVm(pagedir_destroy(VmSt, p))
    /\ loading' = [loading EXCEPT ![p] = NoLoad]
    /\ vmlog' = [vmlog EXCEPT !.last = OtherOp]
    /\ UNCHANGED mmaps
    /\ VmRest

NextVM ==
    \/ \E p \in Procs, u \in OtherPages : SetupStack(p, u)
    \/ \E p \in Procs, u \in OtherPages, w \in BOOLEAN : LoadSegment(p, u, w)
    \/ \E p \in Procs : Mmap(p)
    \/ \E p \in Procs, u \in UPages : LoadPageBegin(p, u)
    \/ \E p \in Procs : LoadPageFinish(p)
    \/ \E p \in Procs, u \in UPages, v \in 1 .. MaxPageVal : UserWrite(p, u, v)
    \/ \E p \in Procs, u \in UPages : UserRead(p, u)
    \/ \E p \in Procs : Munmap(p)
    \/ \E p \in Procs, u \in OtherPages : ClearPage(p, u)
    \/ \E p \in Procs : ProcessExit(p)
    \/ \E p \in Procs : PagedirDestroy(p)

SpecVM == InitVM /\ [][NextVM]_vars

Resident(p, u) == sptes[p][u].type # "none" /\ sptes[p][u].kpage # NULL

OnSwap(p, u) == sptes[p][u].type = "PAGE_SWAP" /\ sptes[p][u].kpage = NULL

FramesOf(kpage) == {i \in 1 .. Len(frame_table) : frame_table[i].kpage = kpage}

(* C6: residency invariant.  For every supplemental page table entry of    *)
(* every process whose kpage is not NULL, the page directory of the        *)
(* process maps upage to that kpage, and the frame table holds exactly one *)
(* frame for that kpage, whose suppl_pte is this entry; in every state     *)
(* the running kernel reaches through loads, evictions by other            *)
(* processes, clear_page, munmap and table destruction.                    *)
C6_Residency ==
    ~panicked =>
        \A p \in Procs, u \in UPages :
            Resident(p, u) =>
                /\ pagedir[p][u].present
                /\ pagedir[p][u].kpage = sptes[p][u].kpage
                /\ Cardinality(FramesOf(sptes[p][u].kpage)) = 1
                /\ \A i \in FramesOf(sptes[p][u].kpage) :
                       frame_table[i].suppl_pte = <<p, u>>

\* A process has a resident page in a frame it took from another process,
\* whose page went to the swap disk, and the invariant holds.
C6_Witness ==
    /\ C6_Residency
    /\ ~panicked
    /\ \E p, q \in Procs, u, w \in UPages :
          p # q /\ Resident(p, u) /\ OnSwap(q, w)

(* C7: swap-slot ownership.  Every swap slot is either empty in the swap   *)
(* table or is the swap_index of exactly one PAGE_SWAP entry whose page is *)
(* on the swap disk: no slot in use is without an entry, and no two        *)
(* entries hold the same slot, also after a swapped page has been loaded   *)
(* back and evicted again.                                                 *)
C7_SwapOwnership ==
    ~panicked =>
        \A i \in Slots :
            \/ swap_table[i]
            \/ Cardinality({pu \in Procs \X UPages :
                              /\ OnSwap(pu[1], pu[2])
                              /\ sptes[pu[1]][pu[2]].ext.swap_index = i}) = 1

\* A page that came back from the swap disk has been evicted again and
\* owns the one slot in use.
C7_Witness ==
    /\ C7_SwapOwnership
    /\ ~panicked
    /\ \E i \in Slots : ~swap_table[i]
    /\ \E p \in Procs, u \in UPages :
          /\ Resident(p, u)
          /\ sptes[p][u].type = "PAGE_SWAP"

(* C8: mmap write-back.  When a mapping has been unmapped, the file holds, *)
(* at the offset of every page of the region that the process wrote, the   *)
(* value written last, whether the page was resident at the unmap or had   *)
(* been evicted to the swap disk before.                                   *)
C8_MmapWriteBack ==
    vmlog.last.op = "munmap" =>
        \A u \in MapPages :
            vmlog.last.wrote[u] # <<>> => mfile[u] = vmlog.last.wrote[u][1]

\* An unmap has written a page back that the process wrote.
C8_Witness ==
    /\ vmlog.last.op = "munmap"
    /\ \E u \in MapPages : vmlog.last.wrote[u] # <<>>
    /\ C8_MmapWriteBack

(* C20: suppl_pt_load_page returns false when upage has no supplemental   *)
(* page table entry or the entry is resident already, and then it has      *)
(* allocated or evicted no frame and changed no entry, nor the frame       *)
(* table, the swap table or the page directories.                          *)
C20_LoadPageRefused ==
    [][(vmops' # vmops /\ vmlog'.last.op = "load")
          => /\ ~vmlog'.last.ret
             /\ UNCHANGED <<sptes, pagedir, frame_table, frame_table_pos,
                            user_pool, frames, swap_table, swap_disk,
                            loading>>]_vars

\* A load of a resident page was refused while no page of the pool was
\* free: the call would have had to evict.
C20_Witness ==
    /\ vmlog.last.op = "load"
    /\ vmlog.last.entry = "resident"
    /\ ~vmlog.last.ret
    /\ user_pool = {}

(* C23: out of frames.  When palloc has no free user page and the frame    *)
(* table has no frame to evict (it is empty, as when an exiting process    *)
(* has removed its frames from the table and not yet freed its pages),     *)
(* frame_alloc returns NULL and the load returns false; no assertion fails *)
(* and the kernel does not panic.                                          *)
C23_OutOfFrames ==
    [][(/\ vmops' # vmops
        /\ vmlog'.last.op = "frame_alloc"
        /\ user_pool = {}
        /\ frame_table = <<>>) =>
          /\ vmlog'.last.kpage = NULL
          /\ loading' = loading
          /\ ~panicked']_vars

\* A process has asked for a frame while the only user page was still
\* held by a process between suppl_pt_destroy and pagedir_destroy.
C23_Witness ==
    /\ vmlog.last.op = "frame_alloc"
    /\ vmlog.last.evict
    /\ vmlog.last.victim = <<>>
    /\ frame_table = <<>>
    /\ user_pool = {}
    /\ \E q \in Procs :
          /\ loading[q] = Exiting
          /\ \E u \in UPages : pagedir[q][u].present

(* C27: no frame is shared.  Under every interleaving of page loads,       *)
(* evictions and exits of different processes, no two entries of the       *)
(* supplemental page tables hold the same kpage; a frame that frame_alloc  *)
(* has returned is not taken as a victim before its loader has installed   *)
(* the page, so that the owner of every frame whose load has finished has  *)
(* the frame's kpage as its kpage.                                         *)
C27_NoSharedFrame ==
    ~panicked =>
        /\ \A p, q \in Procs, u, w \in UPages :
               (<<p, u>> # <<q, w>> /\ Resident(p, u) /\ Resident(q, w))
                   => sptes[p][u].kpage # sptes[q][w].kpage
        /\ \A i \in 1 .. Len(frame_table) :
               LET o == frame_table[i].suppl_pte
               IN  loading[o[1]] # [upage |-> o[2],
                                    kpage |-> frame_table[i].kpage]
                       => /\ Resident(o[1], o[2])
                          /\ sptes[o[1]][o[2]].kpage = frame_table[i].kpage

\* A process has evicted a frame while the load of another process was
\* under way.
C27_Witness ==
    /\ ~panicked
    /\ vmlog.last.op = "frame_alloc"
    /\ vmlog.last.evict
    /\ vmlog.last.kpage # NULL
    /\ \E p \in Procs :
          /\ p # vmlog.last.proc
          /\ loading[p] # NoLoad
          /\ loading[p] # Exiting

\* A PAGE_FILE entry registered as not writable.
ReadOnlyFile(e) == e.type = "PAGE_FILE" /\ ~e.ext.writable

(* C32: a PAGE_FILE entry registered as not writable is never mapped       *)
(* writable in the page directory, and while it is in the table it keeps   *)
(* its type and file fields, so it never takes a swap slot, whatever is    *)
(* loaded and evicted; a present page whose entry is PAGE_ZERO or          *)
(* PAGE_SWAP is mapped writable.                                           *)
C32_ReadOnlyFile ==
    /\ [](\A p \in Procs, u \in UPages :
            (sptes[p][u].type # "none" /\ pagedir[p][u].present) =>
                pagedir[p][u].writable = ~ReadOnlyFile(sptes[p][u]))
    /\ [][\A p \in Procs, u \in UPages :
            (ReadOnlyFile(sptes[p][u]) /\ sptes'[p][u].type # "none") =>
                /\ sptes'[p][u].type = "PAGE_FILE"
                /\ sptes'[p][u].ext = sptes[p][u].ext]_vars

\* frame_alloc has just evicted the page of an entry that is not writable:
\* the entry is still a PAGE_FILE entry, its page is not present, and no
\* swap slot is in use.
C32_Witness ==
    /\ vmlog.last.op = "frame_alloc"
    /\ vmlog.last.evict
    /\ vmlog.last.kpage # NULL
    /\ vmlog.last.victim # <<>>
    /\ ReadOnlyFile(sptes[vmlog.last.victim[1]][vmlog.last.victim[2]])
    /\ sptes[vmlog.last.victim[1]][vmlog.last.victim[2]].kpage = NULL
    /\ ~pagedir[vmlog.last.victim[1]][vmlog.last.victim[2]].present
    /\ \A i \in Slots : swap_table[i]

\* The kernel pages that have a frame in the table.
TablePages(ft) == {ft[i].kpage : i \in 1 .. Len(ft)}

\* C38: clock cursor validity.  In every reachable state frame_table_pos
\* is the tail of the frame table or one of its elements; and a step
\* that removes one frame leaves the position on the element it was on,
\* or, when that is the element removed, on the one that followed it (the
\* tail after the last).
C38_CursorValid ==
    /\ [](frame_table_pos \in 0 .. Len(frame_table))
    /\ [][(/\ Len(frame_table') = Len(frame_table) - 1
           /\ frame_table_pos \in 1 .. Len(frame_table)
           /\ ~panicked')
            => IF frame_table[frame_table_pos].kpage
                     \in TablePages(frame_table')
               THEN /\ frame_table_pos' \in 1 .. Len(frame_table')
                    /\ frame_table'[frame_table_pos']
                           = frame_table[frame_table_pos]
               ELSE IF frame_table_pos = Len(frame_table)
               THEN frame_table_pos' = 0
               ELSE /\ frame_table_pos' \in 1 .. Len(frame_table')
                    /\ frame_table'[frame_table_pos']
                           = frame_table[frame_table_pos + 1]]_vars

\* suppl_pt_clear_page has removed the frame the clock position was on,
\* the last of the table, and the position is the tail.
C38_Witness ==
    /\ vmlog.last.op = "clear"
    /\ vmlog.last.cursor
    /\ frame_table_pos = 0
    /\ ~panicked

---------------------------------------------------------------------------
(* vm/swap.c on its own: callers that swap the pages of the machine out    *)
(* and in and free slots, in any order, and that store into the pages in   *)
(* between.  Every call holds swap_table_lock from start to end and is one *)
(* step.  vmlog keeps the last call with the swap table and the pages as   *)
(* they were before it, and for every slot the page that the last swap_out *)
(* into it stored, until a swap_in or a swap_remove of that slot.          *)

AllPages == KPages \cup {KernelPage}
NotHeld  == [held |-> FALSE]

\* swap_table_init on a machine whose pages and swap disk hold anything.
InitSwap ==
    /\ frames \in [AllPages -> PageVals]
    /\ swap_disk \in [Slots -> PageVals]
    /\ swap_table = [i \in Slots |-> TRUE]
    /\ vmlog = [last |-> [op |-> "none"], held |-> [i \in Slots |-> NotHeld]]
    /\ sptes = [p \in Procs |-> [u \in UPages |-> NoPte]]
    /\ pagedir = [p \in Procs |-> [u \in UPages |-> NoPde]]
    /\ frame_table = <<>>
    /\ frame_table_pos = 0
    /\ user_pool = KPages
    /\ mfile = [i \in 1 .. FilePages |-> 0]
    /\ mmaps = [p \in Procs |-> NoMap]
    /\ loading = [p \in Procs |-> NoLoad]
    /\ vmops = 0
    /\ buffer_cache = [i \in 1 .. BUFFER_CACHE_NUM |-> EmptyEntry]
    /\ buffer_cache_pos = 0
    /\ read_ahead_list = <<>>
    /\ read_ahead_sema = sema_init(0)
    /\ disk = [s \in Sectors |-> Zeros]
    /\ written = [s \in Sectors |-> Zeros]
    /\ lastRead = NoRead
    /\ InodeIdle /\ OpenIdle /\ ProcIdle

SwapRest ==
    UNCHANGED <<cacheVars, obsVars, inodeVars, openVars, procVars, sptes, pagedir,
                frame_table, frame_table_pos, user_pool, mfile, mmaps,
                loading, vmops>>

\* swap_out (kpage)
SwapOut(kpage) ==
    \E r \in {swap_out(VmSt, kpage)} :
        /\ swap_table' = r.vs.st
        /\ swap_disk' = r.vs.sd
        /\ frames' = r.vs.fr
        /\ vmlog' =
              [last |-> [op |-> "swap_out", kpage |-> kpage, idx |-> r.idx,
                         st |-> swap_table, fr |-> frames],
               held |-> IF r.idx = BITMAP_ERROR THEN vmlog.held
                        ELSE [vmlog.held EXCEPT ![r.idx] =
                                 [held |-> TRUE, page |-> frames[kpage]]]]
        /\ SwapRest

\* swap_in (kpage, idx)
SwapIn(kpage, idx) ==
    \E r \in {swap_in(VmSt, kpage, idx)} :
        /\ swap_table' = r.vs.st
        /\ swap_disk' = r.vs.sd
        /\ frames' = r.vs.fr
        /\ vmlog' =
              [last |-> [op |-> "swap_in", kpage |-> kpage, idx |-> idx,
                         ok |-> r.ok, st |-> swap_table, fr |-> frames,
                         was |-> IF idx \in Slots THEN vmlog.held[idx]
                                 ELSE NotHeld],
               held |-> [i \in Slots |->
                            IF i = idx THEN NotHeld ELSE vmlog.held[i]]]
        /\ SwapRest

\* swap_remove (idx)
SwapRemove(idx) ==
    /\ swap_table' = swap_remove(VmSt, idx).st
    /\ vmlog' = [last |-> [op |-> "swap_remove", idx |-> idx],
                 held |-> [vmlog.held EXCEPT ![idx] = NotHeld]]
    /\ UNCHANGED <<swap_disk, frames>>
    /\ SwapRest

\* The owner of a page stores into it.
StorePage(kpage, v) ==
    /\ frames[kpage] # v
    /\ frames' = [frames EXCEPT ![kpage] = v]
    /\ vmlog' = [vmlog EXCEPT !.last = [op |-> "store"]]
    /\ UNCHANGED <<swap_table, swap_disk>>
    /\ SwapRest

NextSwap ==
    \/ \E k \in AllPages : SwapOut(k)
    \/ \E k \in AllPages, idx \in 0 .. NumSwapSlots : SwapIn(k, idx)
    \/ \E idx \in Slots : SwapRemove(idx)
    \/ \E k \in AllPages, v \in PageVals : StorePage(k, v)

SpecSwap == InitSwap /\ [][NextSwap]_vars

(* C17: swap_in (kpage, idx) returns false and leaves the swap table and   *)
(* the page unchanged when idx is out of range or the slot is empty;       *)
(* otherwise it returns true and marks that slot, and no other, empty.     *)
C17_SwapIn ==
    vmlog.last.op = "swap_in" =>
        IF vmlog.last.idx \notin Slots \/ vmlog.last.st[vmlog.last.idx]
        THEN /\ ~vmlog.last.ok
             /\ swap_table = vmlog.last.st
             /\ frames = vmlog.last.fr
        ELSE /\ vmlog.last.ok
             /\ swap_table = [vmlog.last.st EXCEPT ![vmlog.last.idx] = TRUE]

\* swap_in has refused an empty slot while another slot was in use.
C17_Witness ==
    /\ vmlog.last.op = "swap_in"
    /\ vmlog.last.idx \in Slots
    /\ vmlog.last.st[vmlog.last.idx]
    /\ \E i \in Slots : ~vmlog.last.st[i]
    /\ ~vmlog.last.ok

(* C18: swap round trip.  The slot swap_out returns was empty before the   *)
(* call and is in use after it; a swap_in of that slot that follows, with  *)
(* any calls on other slots in between, succeeds and gives the page the    *)
(* bytes that were swapped out.                                            *)
C18_RoundTrip ==
    /\ (vmlog.last.op = "swap_out" /\ vmlog.last.idx # BITMAP_ERROR)
          => /\ vmlog.last.idx \in Slots
             /\ vmlog.last.st[vmlog.last.idx]
             /\ ~swap_table[vmlog.last.idx]
    /\ (vmlog.last.op = "swap_in" /\ vmlog.last.was.held)
          => /\ vmlog.last.ok
             /\ frames[vmlog.last.kpage] = vmlog.last.was.page

\* A page came back from slot 0 with the bytes that went out, into a page
\* that held other bytes, while slot 1 was in use: a swap_out came between.
C18_Witness ==
    /\ vmlog.last.op = "swap_in"
    /\ vmlog.last.idx = 0
    /\ vmlog.last.was.held
    /\ ~vmlog.last.st[1]
    /\ vmlog.last.fr[vmlog.last.kpage] # vmlog.last.was.page
    /\ frames[vmlog.last.kpage] = vmlog.last.was.page

---------------------------------------------------------------------------
(* filesys/free-map.c on its own: callers that allocate runs of sectors    *)
(* with free_map_allocate_r and release single sectors, on a formatted     *)
(* volume.  lastOp keeps the arguments and results of the last call and    *)
(* the free map as it was before it.                                       *)

\* Values of *cntp and size: nothing, one sector, a few, and more than the
\* disk holds.
AllocCounts == {0, 1, IND_BLOCK + SIZE_BLOCK, NumSectors}

InitFreeMap ==
    \E f \in {Formatted} :
        /\ buffer_cache = f.st.bc
        /\ buffer_cache_pos = f.st.pos
        /\ disk = f.st.disk
        /\ free_map = f.st.fm
        /\ free_map_file = f.st.fmfile
        /\ panicked = FALSE
        /\ open_inodes = f.list
        /\ live = {FREE_MAP_SECTOR, ROOT_DIR_SECTOR}
        /\ files = [h \in Handles |-> NoFile]
        /\ lastOp = NoOp
        /\ nops = 0
        /\ read_ahead_list = <<>>
        /\ read_ahead_sema = sema_init(0)
        /\ written = [s \in Sectors |-> Zeros]
        /\ lastRead = NoRead
        /\ OpenIdle /\ ProcIdle /\ VmIdle

\* free_map_allocate_r (&cnt, size, &sector)
FmAllocateR(cnt, size) ==
    /\ CanCall
    /\ nops' = nops + 1
    /\ \E r \in {free_map_allocate_r(FsSt, cnt, size)} :
          /\ SetFs(r.st)
          /\ lastOp' = [op |-> "allocate_r", cnt |-> cnt, size |-> size,
                        n |-> r.size, sector |-> r.sector, left |-> r.cnt,
                        bitsBefore |-> free_map]
    /\ UNCHANGED <<open_inodes, live, files>>
    /\ CacheRest /\ UNCHANGED <<openVars, procVars, vmVars>>

\* free_map_release (sector, 1) of a sector that a caller holds.
FmRelease(sector) ==
    /\ CanCall
    /\ free_map[sector]
    /\ sector \notin {FREE_MAP_SECTOR, ROOT_DIR_SECTOR, free_map_file}
    /\ nops' = nops + 1
    /\ SetFs(free_map_release(FsSt, sector, 1))
    /\ lastOp' = [op |-> "release", sector |-> sector]
    /\ UNCHANGED <<open_inodes, live, files>>
    /\ CacheRest /\ UNCHANGED <<openVars, procVars, vmVars>>

NextFreeMap ==
    \/ \E cnt \in AllocCounts, size \in AllocCounts : FmAllocateR(cnt, size)
    \/ \E s \in Sectors : FmRelease(s)

SpecFreeMap == InitFreeMap /\ [][NextFreeMap]_vars

(* C19: free_map_allocate_r with r sectors still wanted and a request of   *)
(* c returns n with 0 <= n <= min (c, r); the n sectors from the sector it *)
(* stores were free before and are in use after; r has gone down by n; and *)
(* n is 0 only if min (c, r) is 0 or the free map has no free sector.      *)
C19_AllocateR ==
    lastOp.op = "allocate_r" =>
        /\ 0 <= lastOp.n
        /\ lastOp.n <= Min(lastOp.size, lastOp.cnt)
        /\ \A k \in lastOp.sector .. lastOp.sector + lastOp.n - 1 :
              k \in Sectors /\ ~lastOp.bitsBefore[k] /\ free_map[k]
        /\ lastOp.left = lastOp.cnt - lastOp.n
        /\ lastOp.n = 0 =>
              \/ Min(lastOp.size, lastOp.cnt) = 0
              \/ \A s \in Sectors : lastOp.bitsBefore[s]

\* The free map had as many free sectors as were asked for, but in no one
\* run: the request was halved until it fitted.
C19_Witness ==
    /\ lastOp.op = "allocate_r"
    /\ 0 < lastOp.n
    /\ lastOp.n < Min(lastOp.size, lastOp.cnt)
    /\ Cardinality({s \in Sectors : ~lastOp.bitsBefore[s]})
          >= Min(lastOp.size, lastOp.cnt)

\* The free map was full and the call returned 0.
C19_WitnessFull ==
    /\ lastOp.op = "allocate_r"
    /\ lastOp.n = 0
    /\ Min(lastOp.size, lastOp.cnt) > 0
    /\ \A s \in Sectors : lastOp.bitsBefore[s]

---------------------------------------------------------------------------
(* vm/frame.c on a machine of NumClockFrames user pages that are all in    *)
(* use: every page fault evicts.  The frame table holds the pages in the   *)
(* order they were allocated; their owners are Zero, File and Swap pages,  *)
(* clean and dirty, accessed and not, the clock hand stands anywhere and   *)
(* the swap disk is empty, half full or full.  Two pages that are not in   *)
(* memory fault, one of each process; a fault is the two steps it is in    *)
(* SpecVM, and setup_stack can give a resident stack page up.              *)

NumClockFrames == 3
MaxClockOps    == 2

ClockPages == 1 .. NumClockFrames

\* The k-th page of the machine: pages of the processes in turn, from the
\* top of the address space down.
PageNo(k) ==
    <<((k - 1) % NumProcs) + 1,
      FilePages + NumOtherPages - ((k - 1) \div NumProcs)>>

\* What a resident page can be: the entry's type and union, the dirty flag
\* of the entry, the dirty bit of the page-table entry and whether the
\* page is mapped writable.  A read-only page is never dirty, and a page
\* that has been on the swap disk has a dirty entry.
FrameKinds ==
    {[type |-> "PAGE_ZERO", ext |-> Uninit, dirty |-> d[1], hw |-> d[2],
      writable |-> TRUE] :
        d \in {<<FALSE, FALSE>>, <<FALSE, TRUE>>, <<TRUE, FALSE>>}}
    \cup {[type |-> "PAGE_FILE",
           ext |-> [file |-> "exec", ofs |-> 1, writable |-> FALSE],
           dirty |-> FALSE, hw |-> FALSE, writable |-> FALSE]}
    \cup {[type |-> "PAGE_FILE",
           ext |-> [file |-> "mfile", ofs |-> 1, writable |-> TRUE],
           dirty |-> FALSE, hw |-> h, writable |-> TRUE] : h \in BOOLEAN}
    \cup {[type |-> "PAGE_SWAP", ext |-> [swap_index |-> 0],
           dirty |-> TRUE, hw |-> FALSE, writable |-> TRUE]}

\* The swap disk: slots 0 .. used - 1 hold pages.
SwapFills == 0 .. NumSwapSlots

InitFrame ==
    /\ \E kind \in [ClockPages -> FrameKinds],
          acc \in [ClockPages -> BOOLEAN],
          used \in SwapFills :
          /\ sptes =
                [p \in Procs |-> [u \in UPages |->
                    IF \E k \in ClockPages : PageNo(k) = <<p, u>>
                    THEN LET k == CHOOSE k \in ClockPages :
                                      PageNo(k) = <<p, u>>
                         IN  [type |-> kind[k].type, kpage |-> k,
                              dirty |-> kind[k].dirty, ext |-> kind[k].ext]
                    ELSE IF \E i \in Slots :
                                PageNo(NumClockFrames + 1 + i) = <<p, u>>
                    THEN LET i == CHOOSE i \in Slots :
                                PageNo(NumClockFrames + 1 + i) = <<p, u>>
                         IN  IF i < used
                             THEN [type |-> "PAGE_SWAP", kpage |-> NULL,
                                   dirty |-> TRUE,
                                   ext |-> [swap_index |-> i]]
                             ELSE [type |-> "PAGE_ZERO", kpage |-> NULL,
                                   dirty |-> FALSE, ext |-> Uninit]
                    ELSE NoPte]]
          /\ pagedir =
                [p \in Procs |-> [u \in UPages |->
                    IF \E k \in ClockPages : PageNo(k) = <<p, u>>
                    THEN LET k == CHOOSE k \in ClockPages :
                                      PageNo(k) = <<p, u>>
                         IN  [present |-> TRUE, kpage |-> k,
                              writable |-> kind[k].writable,
                              accessed |-> acc[k], dirty |-> kind[k].hw]
                    ELSE NoPde]]
          /\ swap_table = [i \in Slots |-> i >= used]
    /\ frame_table = [k \in ClockPages |->
                          [kpage |-> k, suppl_pte |-> PageNo(k)]]
    /\ frame_table_pos \in 0 .. NumClockFrames
    /\ user_pool = {}
    /\ frames = [k \in ClockPages |-> k % (MaxPageVal + 1)]
    /\ swap_disk = [i \in Slots |-> 0]
    /\ mfile = [i \in 1 .. FilePages |-> 0]
    /\ mmaps = [p \in Procs |-> NoMap]
    /\ loading = [p \in Procs |-> NoLoad]
    /\ vmlog = [last |-> OtherOp, wrote |-> [p \in Procs |-> NoWrites]]
    /\ vmops = 0
    /\ buffer_cache = [i \in 1 .. BUFFER_CACHE_NUM |-> EmptyEntry]
    /\ buffer_cache_pos = 0
    /\ read_ahead_list = <<>>
    /\ read_ahead_sema = sema_init(0)
    /\ disk = [s \in Sectors |-> Zeros]
    /\ written = [s \in Sectors |-> Zeros]
    /\ lastRead = NoRead
    /\ InodeIdle /\ OpenIdle /\ ProcIdle

\* A page fault on a page that is not in memory, up to the return of
\* frame_alloc.
ClockFault(p, u) ==
    /\ vmops < MaxClockOps
    /\ sptes[p][u].type # "none"
    /\ sptes[p][u].kpage = NULL
    /\ LoadPageBegin(p, u)

\* The rest of the load.
ClockInstall(p) ==
    /\ vmops < MaxClockOps
    /\ LoadPageFinish(p)

\* setup_stack gives up a stack page that is in memory: frame_remove.
ClockClear(p, u) ==
    /\ vmops < MaxClockOps
    /\ sptes[p][u].type # "none"
    /\ sptes[p][u].kpage # NULL
    /\ ClearPage(p, u)

NextFrame ==
    \/ \E p \in Procs, u \in UPages : ClockFault(p, u)
    \/ \E p \in Procs : ClockInstall(p)
    \/ \E p \in Procs, u \in OtherPages : ClockClear(p, u)

SpecFrame == InitFrame /\ [][NextFrame]_vars

\* A frame_alloc that found the pool empty and a frame to stop on.
EvictStep ==
    /\ vmops' # vmops
    /\ vmlog'.last.op = "frame_alloc"
    /\ vmlog'.last.evict
    /\ vmlog'.last.victim # <<>>

\* The page of entry v is dirty: the entry says so, or the page-table entry
\* of the mapped page does.
VictimDirty(v) ==
    \/ sptes[v[1]][v[2]].dirty
    \/ pagedir[v[1]][v[2]].present /\ pagedir[v[1]][v[2]].dirty

\* The victim's content can be had again without the swap disk.
VictimKeeps(v) ==
    LET pte == sptes[v[1]][v[2]]
    IN  \/ pte.type = "PAGE_FILE" /\ ~pte.ext.writable
        \/ pte.type = "PAGE_ZERO" /\ ~VictimDirty(v)

\* The victim has to go to the swap disk.
VictimSwaps(v) ==
    LET pte == sptes[v[1]][v[2]]
    IN  \/ pte.type = "PAGE_ZERO" /\ VictimDirty(v)
        \/ pte.type = "PAGE_FILE" /\ pte.ext.writable /\ VictimDirty(v)
        \/ pte.type = "PAGE_SWAP"

(* C21: victim disposition.  When a frame is evicted, a read-only File     *)
(* page and a Zero page that is not dirty keep their type and take no swap *)
(* slot; a dirty Zero page, a dirty writable File page and a page of type  *)
(* Swap are written to a slot that was empty, and the entry becomes type   *)
(* Swap with that slot as swap_index; in every case the victim's entry     *)
(* ends with kpage = NULL and its upage not present in its page directory. *)
C21_VictimDisposition ==
    [][(EvictStep /\ vmlog'.last.kpage # NULL) =>
          LET v   == vmlog'.last.victim
              old == sptes[v[1]][v[2]]
              new == sptes'[v[1]][v[2]]
          IN  /\ new.kpage = NULL
              /\ ~pagedir'[v[1]][v[2]].present
              /\ VictimKeeps(v) =>
                     /\ new.type = old.type
                     /\ swap_table' = swap_table
              /\ VictimSwaps(v) =>
                     \E i \in Slots :
                        /\ swap_table[i]
                        /\ swap_table' = [swap_table EXCEPT ![i] = FALSE]
                        /\ swap_disk'[i] = frames[vmlog'.last.kpage]
                        /\ new.type = "PAGE_SWAP"
                        /\ new.ext.swap_index = i]_vars

\* An eviction has sent its victim to the second slot of a swap disk whose
\* first slot was taken.
C21_Witness ==
    /\ vmlog.last.op = "frame_alloc"
    /\ vmlog.last.evict
    /\ vmlog.last.kpage # NULL
    /\ vmlog.last.victim # <<>>
    /\ LET pte == sptes[vmlog.last.victim[1]][vmlog.last.victim[2]]
       IN  /\ pte.type = "PAGE_SWAP"
           /\ pte.kpage = NULL
           /\ pte.ext.swap_index = 1
           /\ ~swap_table[1]

(* C22: out of swap.  When the pool is empty, the victim has to go to the  *)
(* swap disk and the swap table has no empty slot, frame_alloc returns     *)
(* NULL, no load is under way for the caller, and the victim's entry       *)
(* (type, kpage, swap_index), its mapping, the frame table with the owner  *)
(* of every frame and the swap table are as they were.                     *)
C22_OutOfSwap ==
    [][(/\ EvictStep
        /\ VictimSwaps(vmlog'.last.victim)
        /\ \A i \in Slots : ~swap_table[i]) =>
          LET v   == vmlog'.last.victim
              old == sptes[v[1]][v[2]]
              new == sptes'[v[1]][v[2]]
          IN  /\ vmlog'.last.kpage = NULL
              /\ loading' = loading
              /\ ~panicked'
              /\ new.type = old.type
              /\ new.kpage = old.kpage
              /\ new.ext = old.ext
              /\ pagedir'[v[1]][v[2]].present = pagedir[v[1]][v[2]].present
              /\ pagedir'[v[1]][v[2]].kpage = pagedir[v[1]][v[2]].kpage
              /\ frame_table' = frame_table
              /\ swap_table' = swap_table]_vars

\* A frame_alloc has failed on a full swap disk with a resident victim.
C22_Witness ==
    /\ vmlog.last.op = "frame_alloc"
    /\ vmlog.last.evict
    /\ vmlog.last.kpage = NULL
    /\ vmlog.last.victim # <<>>
    /\ \A i \in Slots : ~swap_table[i]
    /\ Resident(vmlog.last.victim[1], vmlog.last.victim[2])
    /\ pagedir[vmlog.last.victim[1]][vmlog.last.victim[2]].present

\* The frame j steps after the clock hand, in circular order: the hand on
\* the last frame or on the list's tail is followed by the first frame.
ClockAt(j) ==
    LET n     == Len(frame_table)
        start == IF frame_table_pos = 0 \/ frame_table_pos = n THEN 1
                 ELSE frame_table_pos + 1
    IN  ((start - 1 + j) % n) + 1

\* The accessed bit of the page of the owner of frame i.
FrameAccessed(i) ==
    pagedir[frame_table[i].suppl_pte[1]][frame_table[i].suppl_pte[2]].accessed

\* The number of frames the hand passes before the victim.
ClockSkips ==
    LET n     == Len(frame_table)
        clear == {j \in 0 .. n - 1 : ~FrameAccessed(ClockAt(j))}
    IN  IF clear = {} THEN n
        ELSE CHOOSE j \in clear : \A k \in clear : j <= k

(* C30: frame-table clock policy.  With a frame table that is not empty    *)
(* the selection of a victim ends; the hand starts on the frame after its  *)
(* position, which is that of the previous victim; every frame it visits   *)
(* with the accessed bit of its owner's page set has the bit cleared and   *)
(* is passed; the hand stops on the first frame in circular order whose    *)
(* bit is clear (after one full turn, on the frame it started with), and   *)
(* no other accessed bit changes.                                          *)
C30_FrameClock ==
    [][EvictStep =>
          LET passed == {frame_table[ClockAt(j)].suppl_pte :
                            j \in 0 .. ClockSkips - 1}
          IN  /\ frame_table_pos' = ClockAt(ClockSkips)
              /\ vmlog'.last.victim = frame_table[ClockAt(ClockSkips)].suppl_pte
              /\ \A p \in Procs, u \in UPages :
                     pagedir'[p][u].accessed =
                        IF <<p, u>> \in passed THEN FALSE
                        ELSE pagedir[p][u].accessed]_vars

\* The hand has passed a frame whose accessed bit was set, cleared the bit
\* and stopped on a later frame, having started from the last frame.
C30_Witness ==
    /\ vmlog.last.op = "frame_alloc"
    /\ vmlog.last.evict
    /\ vmlog.last.victim # <<>>
    /\ vmlog.last.kpage # NULL
    /\ vmlog.last.cleared >= 1
    /\ vmlog.last.cleared < Len(frame_table)
    /\ frame_table_pos = vmlog.last.cleared + 1

---------------------------------------------------------------------------
(* userprog/process.c: a process, the children it starts with exec and     *)
(* its calls of wait.  The parent and every child are threads of their     *)
(* own.  thread_create, which is not part of these sources, gives the      *)
(* child its struct process_info (status PROCESS_LOADING, exit_code -1,    *)
(* is_waiting false) and puts it on the parent's child_list.  The loops of *)
(* syscall_exec and process_wait yield until the child has changed its     *)
(* status; a turn of such a loop that finds nothing new is no step.        *)

PID_ERROR       == -1
PROCESS_LOADING == 0
PROCESS_RUNNING == 1
PROCESS_FAIL    == 2
PROCESS_EXIT    == 4

NumChildren == 2
MaxExitCode == 1
MaxWaits    == 3

Pids      == 1 .. NumChildren
WaitPids  == 1 .. NumChildren + 1         \* the last is nobody's pid
ExitCodes == 0 .. MaxExitCode

\* status & flag, for a flag of one bit
HasFlag(status, flag) == (status \div flag) % 2 = 1

\* status |= flag
SetFlag(status, flag) == IF HasFlag(status, flag) THEN status
                         ELSE status + flag

\* process_find_child: the position of the first child with this pid, or
\* NULL.
process_find_child(list, pid) ==
    LET hits == {i \in 1 .. Len(list) : list[i].pid = pid}
    IN  IF hits = {} THEN NULL
        ELSE CHOOSE i \in hits : \A j \in hits : i <= j

\* A wait loop that takes any status for the end of the child.
process_wait_done_Any(list, pid) == TRUE

\* process_wait, the test of its loop: child->status & PROCESS_EXIT.
process_wait_done(list, pid) ==
    HasFlag(list[process_find_child(list, pid)].status, PROCESS_EXIT)

\* process_wait up to its loop: [list, ret], ret = -1 when it returns at
\* once and NULL when it goes on to wait.
process_wait(list, pid) ==
    LET child == process_find_child(list, pid)
    IN  IF child = NULL THEN [list |-> list, ret |-> -1]
        ELSE IF list[child].is_waiting THEN [list |-> list, ret |-> -1]
        ELSE [list |-> [list EXCEPT ![child].is_waiting = TRUE],
              ret  |-> NULL]

\* process_wait after its loop: the exit code, and the child is removed
\* and freed.
process_wait_return(list, pid) ==
    LET child == process_find_child(list, pid)
    IN  [list |-> RemoveAt(list, child), ret |-> list[child].exit_code]

\* The child's struct process_info with f applied, when the child still
\* has one (process->info != NULL).
WithInfo(c, F(_)) ==
    IF child_procs[c].info
    THEN LET i == process_find_child(child_list, c)
         IN  [child_list EXCEPT ![i] = F(child_list[i])]
    ELSE child_list

\* syscall_exec, the test of its loop: child->status == PROCESS_LOADING.
syscall_exec_loading(status) == status = PROCESS_LOADING

\* A syscall_exec that returns the pid whatever the status.
syscall_exec_return_IgnoreFail(status, pid) == pid

\* syscall_exec after its loop: PID_ERROR when the status has PROCESS_FAIL.
syscall_exec_return(status, pid) ==
    IF HasFlag(status, PROCESS_FAIL) THEN PID_ERROR ELSE pid

NoChild == [pc |-> "none", info |-> FALSE, code |-> -1, load |-> "none"]

InitWait ==
    /\ child_list = <<>>
    /\ child_procs = [c \in Pids |-> NoChild]
    /\ waiter = [pc |-> "user", pid |-> NULL, calls |-> 0, waited |-> {},
                 last |-> [op |-> "none"]]
    /\ proc_mmap = <<>>
    /\ buffer_cache = [i \in 1 .. BUFFER_CACHE_NUM |-> EmptyEntry]
    /\ buffer_cache_pos = 0
    /\ read_ahead_list = <<>>
    /\ read_ahead_sema = sema_init(0)
    /\ disk = [s \in Sectors |-> Zeros]
    /\ written = [s \in Sectors |-> Zeros]
    /\ lastRead = NoRead
    /\ InodeIdle /\ OpenIdle /\ VmIdle

WaitRest ==
    UNCHANGED <<cacheVars, obsVars, inodeVars, openVars, vmVars, proc_mmap>>

\* syscall_exec: process_execute creates the thread of child c.
SyscallExec(c) ==
    /\ waiter.pc = "user"
    /\ child_procs[c].pc = "none"
    /\ child_list' = Append(child_list,
                            [pid |-> c, status |-> PROCESS_LOADING,
                             exit_code |-> -1, is_waiting |-> FALSE])
    /\ child_procs' = [child_procs EXCEPT
                          ![c] = [pc |-> "loading", info |-> TRUE,
                                  code |-> -1, load |-> "none"]]
    /\ waiter' = [waiter EXCEPT !.pc = "exec", !.pid = c,
                                !.last = [op |-> "exec"]]
    /\ WaitRest

\* syscall_exec: process_execute returns PID_ERROR, a page, the arguments
\* or the thread not being available; no child exists.
SyscallExecFail ==
    /\ waiter.pc = "user"
    /\ waiter' = [waiter EXCEPT
                    !.last = [op |-> "exec", ret |-> PID_ERROR,
                              created |-> FALSE]]
    /\ UNCHANGED <<child_list, child_procs>>
    /\ WaitRest

\* syscall_exec returns once the child is no longer loading.
SyscallExecReturn ==
    /\ waiter.pc = "exec"
    /\ \E child \in {process_find_child(child_list, waiter.pid)} :
          /\ ~syscall_exec_loading(child_list[child].status)
          /\ waiter' = [waiter EXCEPT
                          !.pc = "user",
                          !.last = [op  |-> "exec",
                                    ret |-> syscall_exec_return(
                                                child_list[child].status,
                                                waiter.pid),
                                    status |-> child_list[child].status,
                                    created |-> TRUE]]
    /\ UNCHANGED <<child_list, child_procs>>
    /\ WaitRest

\* start_process: the result of load goes into the status; a child whose
\* load failed calls thread_exit.
StartProcess(c, success) ==
    /\ child_procs[c].pc = "loading"
    /\ child_list' = WithInfo(c, LAMBDA info :
                          [info EXCEPT !.status =
                              SetFlag(info.status,
                                      IF success THEN PROCESS_RUNNING
                                      ELSE PROCESS_FAIL)])
    /\ child_procs' = [child_procs EXCEPT
                          ![c].pc = IF success THEN "running" ELSE "exiting",
                          ![c].load = IF success THEN "ok" ELSE "failed"]
    /\ UNCHANGED waiter
    /\ WaitRest

\* syscall_exit (status): the exit code, then thread_exit.
SyscallExit(c, status) ==
    /\ child_procs[c].pc = "running"
    /\ child_list' = WithInfo(c, LAMBDA info :
                          [info EXCEPT !.exit_code = status])
    /\ child_procs' = [child_procs EXCEPT ![c].pc = "exiting",
                                          ![c].code = status]
    /\ UNCHANGED waiter
    /\ WaitRest

\* process_exit of a child, which has no children of its own: the status
\* gets PROCESS_EXIT.
ChildExit(c) ==
    /\ child_procs[c].pc = "exiting"
    /\ child_list' = WithInfo(c, LAMBDA info :
                          [info EXCEPT !.status =
                              SetFlag(info.status, PROCESS_EXIT)])
    /\ child_procs' = [child_procs EXCEPT ![c].pc = "dead"]
    /\ UNCHANGED waiter
    /\ WaitRest

\* process_wait (pid) up to its loop.
ProcessWait(pid) ==
    /\ waiter.pc = "user"
    /\ waiter.calls < MaxWaits
    /\ \E r \in {process_wait(child_list, pid)} :
          /\ child_list' = r.list
          /\ waiter' = [waiter EXCEPT
                          !.pc = IF r.ret = -1 THEN "user" ELSE "wait",
                          !.pid = pid,
                          !.calls = waiter.calls + 1,
                          !.last = IF r.ret = -1
                                   THEN [op |-> "wait", pid |-> pid,
                                         ret |-> -1]
                                   ELSE [op |-> "waiting"]]
    /\ UNCHANGED child_procs
    /\ WaitRest

\* process_wait leaves its loop and returns.
ProcessWaitReturn ==
    /\ waiter.pc = "wait"
    /\ process_wait_done(child_list, waiter.pid)
    /\ \E r \in {process_wait_return(child_list, waiter.pid)} :
          /\ child_list' = r.list
          /\ waiter' = [waiter EXCEPT
                          !.pc = "user",
                          !.waited = waiter.waited \cup {waiter.pid},
                          !.last = [op |-> "wait", pid |-> waiter.pid,
                                    ret |-> r.ret]]
    /\ UNCHANGED child_procs
    /\ WaitRest

\* process_exit of the parent: the children that have not exited lose
\* their info, and every struct process_info is freed.
ParentExit ==
    /\ waiter.pc = "user"
    /\ child_procs' =
          [c \in Pids |->
              IF /\ process_find_child(child_list, c) # NULL
                 /\ ~HasFlag(child_list[process_find_child(child_list, c)].status,
                             PROCESS_EXIT)
              THEN [child_procs[c] EXCEPT !.info = FALSE]
              ELSE child_procs[c]]
    /\ child_list' = <<>>
    /\ waiter' = [waiter EXCEPT !.pc = "exited", !.last = [op |-> "exit"]]
    /\ WaitRest

NextWait ==
    \/ \E c \in Pids : SyscallExec(c)
    \/ SyscallExecFail
    \/ SyscallExecReturn
    \/ \E c \in Pids, success \in BOOLEAN : StartProcess(c, success)
    \/ \E c \in Pids, status \in ExitCodes : SyscallExit(c, status)
    \/ \E c \in Pids : ChildExit(c)
    \/ \E pid \in WaitPids : ProcessWait(pid)
    \/ ProcessWaitReturn
    \/ ParentExit

SpecWait == InitWait /\ [][NextWait]_vars

(* C24: process_wait (pid) returns -1 at once when pid is not a child of   *)
(* the caller or has been waited for already; for a child that has not     *)
(* been waited for it returns only after the child has set PROCESS_EXIT in *)
(* its status, it returns the exit code of that child, and the child is no *)
(* longer on the list, so that a second wait for the pid returns -1.       *)
C24_ProcessWait ==
    [][/\ (waiter.pc = "user" /\ waiter'.calls # waiter.calls) =>
             LET pid   == waiter'.pid
                 child == \E i \in 1 .. Len(child_list) :
                              child_list[i].pid = pid
             IN  /\ (~child \/ pid \in waiter.waited) =>
                        /\ waiter'.pc = "user"
                        /\ waiter'.last.op = "wait"
                        /\ waiter'.last.ret = -1
                        /\ child_list' = child_list
                 /\ (child /\ pid \notin waiter.waited) =>
                        waiter'.pc = "wait"
       /\ (waiter.pc = "wait" /\ waiter'.pc # "wait") =>
             /\ child_procs[waiter.pid].pc = "dead"
             /\ waiter'.last.op = "wait"
             /\ waiter'.last.pid = waiter.pid
             /\ waiter'.last.ret = child_procs[waiter.pid].code
             /\ \A i \in 1 .. Len(child_list') :
                    child_list'[i].pid # waiter.pid]_vars

\* A second wait for a child that had exited with code 1 has returned -1.
C24_Witness ==
    /\ waiter.pc = "user"
    /\ waiter.last.op = "wait"
    /\ waiter.last.ret = -1
    /\ waiter.last.pid \in waiter.waited
    /\ child_procs[waiter.last.pid].code = 1

\* The same threads under a scheduler that is fair to them: load returns,
\* so a loading child takes the step of start_process, and the parent,
\* which yields in its loop, gets its turns.
SpecExec ==
    /\ InitWait
    /\ [][NextWait]_vars
    /\ \A c \in Pids : WF_vars(\E success \in BOOLEAN : StartProcess(c, success))
    /\ WF_vars(SyscallExecReturn)

\* C35: exec and load.  syscall_exec stays in its loop while the child's
\* status is PROCESS_LOADING; when it returns for a child that was created
\* it returns PID_ERROR if the child's load failed and the child's pid if
\* the load succeeded, whether or not the child has exited since; when no
\* child was created it returns PID_ERROR; and a parent in the loop leaves
\* it once the child is scheduled.
C35_ExecHandshake ==
    /\ [][(waiter.pc = "exec" /\ waiter'.pc # "exec") =>
             /\ child_procs[waiter.pid].load # "none"
             /\ waiter'.pc = "user"
             /\ waiter'.last.op = "exec"
             /\ waiter'.last.ret =
                    IF child_procs[waiter.pid].load = "failed"
                    THEN PID_ERROR ELSE waiter.pid]_vars
    /\ [](waiter.last.op = "exec" /\ waiter.pc = "user" =>
             (waiter.last.ret = PID_ERROR <=>
                 \/ ~waiter.last.created
                 \/ child_procs[waiter.pid].load = "failed"))
    /\ (waiter.pc = "exec") ~> (waiter.pc = "user")

\* syscall_exec has returned the pid of a child that had loaded, run and
\* exited before the parent looked at its status.
C35_Witness ==
    /\ waiter.pc = "user"
    /\ waiter.last.op = "exec"
    /\ waiter.last.created
    /\ waiter.last.ret = waiter.pid
    /\ HasFlag(waiter.last.status, PROCESS_EXIT)
    /\ child_procs[waiter.pid].pc = "dead"
    /\ child_procs[waiter.pid].load = "ok"

---------------------------------------------------------------------------
(* syscall_mmap on its own: processes that set up stack pages, fault pages *)
(* in and call mmap with any descriptor and address, while malloc may      *)
(* fail at any of the allocations of the call.                             *)

MaxMmapOps == 4

MmapFds     == FD_MIN .. FD_MIN + 2       \* the last one is not open
MmapMallocs == 0 .. FilePages + 1
MunmapIds   == MAPID_MIN .. MAPID_MIN + 1
\* The addresses of a call; a region that would reach PHYS_BASE is left
\* out, the model holding no kernel pages of a process.
MmapAddrs ==
    {a \in 0 .. PHYS_BASE :
        \/ ~is_user_vaddr(a)
        \/ pg_ofs(a) # 0
        \/ a + FilePages * PGSIZE <= PHYS_BASE}

InitMmap ==
    /\ VmStart
    /\ WaitIdle
    /\ proc_mmap = [p \in Procs |-> ProcStart]

MmapStack(p, u) ==
    /\ vmops < MaxMmapOps
    /\ SetupStack(p, u)

MmapFault(p, u) ==
    /\ vmops < MaxMmapOps
    /\ sptes[p][u].type # "none"
    /\ sptes[p][u].kpage = NULL
    /\ LoadPageBegin(p, u)

MmapInstall(p) ==
    /\ vmops < MaxMmapOps
    /\ LoadPageFinish(p)

\* What the mappings of p have inserted into its supplemental page table:
\* the pairs of a mapping id and a page.  hash_insert leaves an entry that
\* is already at the address, so a page of the region that had an entry
\* before the call is not among them.
Installed(p) == IF mmaps[p].mapped THEN mmaps[p].installed ELSE {}

\* syscall_mmap (fd, addr), of which mallocs allocations succeed.
SyscallMmap(p, fd, addr, mallocs) ==
    /\ CanRun(p)
    /\ vmops < MaxMmapOps
    /\ \E r \in {syscall_mmap(VmSt, proc_mmap[p], p, fd, addr, mallocs)} :
        /\ SetVm(r.vs)
        /\ proc_mmap' = [proc_mmap EXCEPT ![p] = r.pr]
        /\ vmlog' = [vmlog EXCEPT !.last =
                        [op |-> "mmap", proc |-> p, fd |-> fd, addr |-> addr,
                         ret |-> r.ret, fault_ofs |-> r.fault_ofs]]
        /\ mmaps' = [mmaps EXCEPT ![p] =
                        IF r.ret = MAP_FAILED THEN @
                        ELSE [mapped |-> TRUE,
                              installed |-> Installed(p) \cup
                                  {<<r.ret, u>> : u \in
                                      {v \in UPages :
                                          /\ sptes[p][v].type = "none"
                                          /\ r.vs.spt[p][v].type # "none"}}]]
    /\ vmops' = vmops + 1
    /\ UNCHANGED <<loading, cacheVars, obsVars, free_map,
                   free_map_file, open_inodes, live, files, lastOp, nops,
                   openVars, child_list, child_procs, waiter>>

\* The loop of mmap_unmap_item for the mapping mmap, from offset ofs: an
\* address of the region without an entry is skipped, and the entry that
\* suppl_pt_get_page finds at any other address is written back when it
\* is dirty, freed and deleted from the table.
RECURSIVE UnmapItemFrom(_, _, _, _)
UnmapItemFrom(vs, p, mmap, ofs) ==
    IF ofs >= mmap.size THEN vs
    ELSE
    LET u   == pg_no(mmap.addr + ofs)
        pte == vs.spt[p][u]
    IN
    IF pte.type = "none" THEN UnmapItemFrom(vs, p, mmap, ofs + PGSIZE)
    ELSE
    Let(suppl_pt_update_dirty(vs, p, u), LAMBDA ud :
    Let(IF pte.kpage # NULL
            THEN LET w == IF ud.dirty
                          THEN [ud.vs EXCEPT !.mf[ofs \div PGSIZE + 1] =
                                                ud.vs.fr[pte.kpage]]
                          ELSE ud.vs
                 IN  palloc_free_page(frame_remove(w, pte.kpage), pte.kpage)
        ELSE IF pte.type = "PAGE_SWAP"
            THEN IF ud.dirty
                 THEN [swap_in(ud.vs, KernelPage, pte.ext.swap_index).vs
                         EXCEPT !.panic = TRUE]
                 ELSE swap_remove(ud.vs, pte.ext.swap_index)
        ELSE vs, LAMBDA a :
    IF a.panic THEN a
    ELSE UnmapItemFrom([a EXCEPT !.pd[p][u].present = FALSE,
                                 !.spt[p][u] = NoPte],
                       p, mmap, ofs + PGSIZE)))

\* process_get_mmap: the place in mmap_list of the first mapping with the
\* id, 0 when there is none.
process_get_mmap(pr, id) ==
    LET hits == {i \in DOMAIN pr.mmap_list : pr.mmap_list[i].id = id}
    IN  IF hits = {} THEN 0
        ELSE CHOOSE i \in hits : \A j \in hits : i <= j

\* syscall_munmap (mapping) by process p, whose record is pr:
\* mmap_unmap_item, which ends with list_remove and file_close.
syscall_munmap(vs, pr, p, mapping) ==
    LET i == process_get_mmap(pr, mapping)
    IN  IF i = 0 THEN [vs |-> vs, pr |-> pr, found |-> FALSE]
        ELSE
        Let(UnmapItemFrom(vs, p, pr.mmap_list[i], 0), LAMBDA a :
        IF a.panic THEN [vs |-> a, pr |-> pr, found |-> TRUE]
        ELSE [vs |-> a,
              pr |-> file_close(
                        [pr EXCEPT !.mmap_list =
                            SubSeq(@, 1, i - 1) \o SubSeq(@, i + 1, Len(@))],
                        pr.mmap_list[i].file),
              found |-> TRUE])

\* The log of the call keeps the pages whose entry the mmap of the id had
\* inserted and the pages whose entry the call deleted.
SyscallMunmap(p, id) ==
    /\ CanRun(p)
    /\ vmops < MaxMmapOps
    /\ \E r \in {syscall_munmap(VmSt, proc_mmap[p], p, id)} :
        /\ SetVm(r.vs)
        /\ proc_mmap' = [proc_mmap EXCEPT ![p] = r.pr]
        /\ vmlog' = [vmlog EXCEPT !.last =
                        [op |-> "munmap", proc |-> p, id |-> id,
                         found |-> r.found,
                         installed |-> {u \in UPages :
                                          <<id, u>> \in Installed(p)},
                         removed |-> {u \in UPages :
                                        /\ sptes[p][u].type # "none"
                                        /\ r.vs.spt[p][u].type = "none"}]]
        /\ mmaps' = [mmaps EXCEPT ![p] =
                        IF r.pr.mmap_list = <<>> THEN NoMap
                        ELSE [mapped |-> TRUE,
                              installed |-> {e \in Installed(p) : e[1] # id}]]
    /\ vmops' = vmops + 1
    /\ UNCHANGED <<loading, cacheVars, obsVars, free_map,
                   free_map_file, open_inodes, live, files, lastOp, nops,
                   openVars, child_list, child_procs, waiter>>

NextMmap ==
    \/ \E p \in Procs, u \in OtherPages : MmapStack(p, u)
    \/ \E p \in Procs, u \in UPages : MmapFault(p, u)
    \/ \E p \in Procs : MmapInstall(p)
    \/ \E p \in Procs, fd \in MmapFds, addr \in MmapAddrs,
          mallocs \in MmapMallocs : SyscallMmap(p, fd, addr, mallocs)
    \/ \E p \in Procs, id \in MunmapIds : SyscallMunmap(p, id)

SpecMmap == InitMmap /\ [][NextMmap]_vars

MmapStep == vmops' # vmops /\ vmlog'.last.op = "mmap"

\* C25: mmap (fd, addr) returns MAP_FAILED when addr is 0, is not
\* page-aligned, is not a user address, fd is not open or the file is
\* empty; and whenever it returns MAP_FAILED, also after registering some
\* pages, the caller's supplemental page table, mmap_list and mapid_next are
\* what they were before the call and the struct files that are open are
\* the same, the reopened one being closed.
C25_MmapFailure ==
    [][MmapStep =>
        LET l  == vmlog'.last
            p  == l.proc
            pr == proc_mmap[p]
        IN  /\ (\/ l.addr = 0
                \/ l.addr % PGSIZE # 0
                \/ l.addr >= PHYS_BASE
                \/ \A i \in DOMAIN pr.file_list : pr.file_list[i].fd # l.fd
                \/ \E i \in DOMAIN pr.file_list :
                      /\ pr.file_list[i].fd = l.fd
                      /\ pr.open_files[pr.file_list[i].file] = "empty")
                => l.ret = MAP_FAILED
            /\ l.ret = MAP_FAILED =>
                /\ sptes'[p] = sptes[p]
                /\ proc_mmap'[p].mmap_list = pr.mmap_list
                /\ proc_mmap'[p].mapid_next = pr.mapid_next
                /\ proc_mmap'[p].open_files = pr.open_files]_vars

\* An mmap that failed after it had registered a page of the region.
C25_Witness ==
    /\ vmlog.last.op = "mmap"
    /\ vmlog.last.ret = MAP_FAILED
    /\ vmlog.last.fault_ofs >= PGSIZE

MunmapStep == vmops' # vmops /\ vmlog'.last.op = "munmap"

\* C40: munmap affects only what its mmap installed.  A munmap (id) that
\* finds the mapping deletes the entries that the mmap of the id inserted
\* and no other: every other entry of the caller, and every entry of
\* another process, is after the call what it was before it.
C40_MunmapOnlyOwn ==
    [][(MunmapStep /\ ~panicked') =>
        LET l == vmlog'.last
        IN  /\ l.removed \subseteq l.installed
            /\ \A q \in Procs : \A u \in UPages :
                   (q # l.proc \/ u \notin l.installed) =>
                       sptes'[q][u] = sptes[q][u]
            /\ l.found => \A u \in l.installed :
                              sptes'[l.proc][u].type = "none"]_vars

\* A munmap has deleted the entry of a page that its mmap found in the
\* table and did not insert.
C40_Witness ==
    /\ vmlog.last.op = "munmap"
    /\ vmlog.last.found
    /\ ~panicked
    /\ vmlog.last.removed \ vmlog.last.installed # {}
    /\ \A u \in vmlog.last.removed : sptes[vmlog.last.proc][u].type = "none"

---------------------------------------------------------------------------
(* Extending a file on a fragmented volume: the free map of a formatted    *)
(* volume on which other files hold scattered sectors, and one thread that *)
(* creates a file, opens it and writes to it.                              *)

\* The largest distance between two held sectors, and the number of calls
\* of the thread.
MaxStride    == 5
MaxExtendOps == 4

FormatFree == {s \in Sectors : ~Formatted.st.fm[s]}

\* The sectors other files hold: none, one sector, or every m-th sector.
HeldSets ==
    {{}} \cup {{s} : s \in {s \in FormatFree : s % MaxStride = 0}}
         \cup {{s \in FormatFree : s % m = r} : m \in 2 .. MaxStride,
                                                r \in 0 .. 1}

\* Lengths for create that an inode can address.
ExtendLens == {len \in CreateLens : len <= MaxFileWords}

InitExtend ==
    \E held \in HeldSets :
    \E f \in {Formatted} :
    \E st \in {bitmap_write([f.st EXCEPT !.fm =
                    [s \in Sectors |-> f.st.fm[s] \/ s \in held]])} :
        /\ buffer_cache = st.bc
        /\ buffer_cache_pos = st.pos
        /\ disk = st.disk
        /\ free_map = st.fm
        /\ free_map_file = st.fmfile
        /\ panicked = FALSE
        /\ open_inodes = f.list
        /\ live = {FREE_MAP_SECTOR, ROOT_DIR_SECTOR}
        /\ files = [h \in Handles |-> NoFile]
        /\ lastOp = NoOp
        /\ nops = 0
        /\ read_ahead_list = <<>>
        /\ read_ahead_sema = sema_init(0)
        /\ written = [s \in Sectors |-> Zeros]
        /\ lastRead = NoRead
        /\ OpenIdle /\ ProcIdle /\ VmIdle

ExtendCreate(len, tdb) == nops < MaxExtendOps /\ FsCreate(len, tdb)
ExtendOpen(h, s)       == nops < MaxExtendOps /\ FsOpen(h, s)
ExtendWrite(h, seed, size, offset, tdb) ==
    nops < MaxExtendOps /\ FsWrite(h, seed, size, offset, tdb)

NextExtend ==
    \/ \E len \in ExtendLens :
          \E tdb \in GarbageFor(bytes_to_sectors(len)) : ExtendCreate(len, tdb)
    \/ \E h \in Handles, s \in Sectors : ExtendOpen(h, s)
    \/ \E h \in Handles, seed \in 0 .. NumSeeds - 1, size \in IoSizes,
          offset \in IoOffsets :
          \E tdb \in GarbageFor(bytes_to_sectors(offset + size)) :
             ExtendWrite(h, seed, size, offset, tdb)

SpecExtend == InitExtend /\ [][NextExtend]_vars

\* The longest run of free sectors in free map fm.
LargestRun(fm) ==
    LET runs == {n \in 0 .. NumSectors :
                    \E s \in Sectors :
                        /\ s + n <= NumSectors
                        /\ \A k \in s .. s + n - 1 : ~fm[k]}
    IN  CHOOSE n \in runs : \A m \in runs : m <= n

\* The sectors the last write needed beyond those the file had.
ExtendNeed ==
    SectorsFor(bytes_to_sectors(lastOp.offset + Len(lastOp.buf)))
      - SectorsFor(bytes_to_sectors(lastOp.lengthBefore))

---------------------------------------------------------------------------
(* The flush-back worker as a thread of its own.  Every function of        *)
(* cache.c that touches the cache runs between lock_acquire and            *)
(* lock_release of buffer_cache_lock, so a client's call is one step that  *)
(* needs the lock free; the worker's turn is three steps: timer_sleep      *)
(* returns, lock_acquire, and the body of buffer_cache_done with           *)
(* lock_release.                                                           *)

\* A mutex is free or held by one thread.
Unheld    == <<>>
HeldBy(t) == <<t>>

FlushWorker == "flush-back"

IdleWorker == [pc |-> "timer_sleep", wrote |-> {}]

InitFlush ==
    /\ buffer_cache = [i \in 1 .. BUFFER_CACHE_NUM |-> EmptyEntry]
    /\ buffer_cache_pos = 0
    /\ read_ahead_list = <<>>
    /\ read_ahead_sema = sema_init(0)
    /\ disk = [s \in Sectors |-> Zeros]
    /\ written = [s \in Sectors |-> Zeros]
    /\ lastRead = NoRead
    /\ filesys_lock = NoThread
    /\ opener = <<>>
    /\ locks = [l \in {"buffer_cache_lock"} |-> Unheld]
    /\ threads = [t \in {FlushWorker} |-> IdleWorker]
    /\ InodeIdle /\ ProcIdle /\ VmIdle

FlushRest ==
    UNCHANGED <<read_ahead_list, read_ahead_sema, written, lastRead,
                inodeVars, filesys_lock, opener, procVars, vmVars>>

\* A client's buffer_cache_write or buffer_cache_read, lock to unlock.
FlushClientWrite(s, v) ==
    /\ locks["buffer_cache_lock"] = Unheld
    /\ CacheWrite(s, v)

FlushClientRead(s) ==
    /\ locks["buffer_cache_lock"] = Unheld
    /\ CacheRead(s)

\* buffer_cache_thread_flush_back: timer_sleep (FLUSH_BACK_INTERVAL) returns.
FlushWake ==
    /\ threads[FlushWorker].pc = "timer_sleep"
    /\ threads' = [threads EXCEPT ![FlushWorker].pc = "lock_acquire"]
    /\ UNCHANGED <<cacheVars, locks>>
    /\ FlushRest

\* buffer_cache_done: lock_acquire (&buffer_cache_lock).
FlushAcquire ==
    /\ threads[FlushWorker].pc = "lock_acquire"
    /\ locks["buffer_cache_lock"] = Unheld
    /\ locks' = [locks EXCEPT !["buffer_cache_lock"] = HeldBy(FlushWorker)]
    /\ threads' = [threads EXCEPT ![FlushWorker].pc = "flush"]
    /\ UNCHANGED cacheVars
    /\ FlushRest

\* buffer_cache_done: the loop over the entries, then lock_release; the
\* worker goes back to timer_sleep.
FlushDone ==
    /\ threads[FlushWorker].pc = "flush"
    /\ locks["buffer_cache_lock"] = HeldBy(FlushWorker)
    /\ \E st \in {buffer_cache_done(CacheSt)} :
          /\ SetCache(st)
          /\ threads' = [threads EXCEPT
                ![FlushWorker] =
                    [pc |-> "timer_sleep",
                     wrote |-> {t \in CacheSectors : st.disk[t] # disk[t]}]]
    /\ locks' = [locks EXCEPT !["buffer_cache_lock"] = Unheld]
    /\ UNCHANGED <<read_ahead_list, read_ahead_sema>>
    /\ FlushRest

NextFlush ==
    \/ \E s \in CacheSectors, v \in Words : FlushClientWrite(s, v)
    \/ \E s \in CacheSectors : FlushClientRead(s)
    \/ FlushWake
    \/ FlushAcquire
    \/ FlushDone

\* timer_sleep returns after FLUSH_BACK_INTERVAL ticks and the scheduler is
\* round-robin: a worker that can take its next step does take it.
SpecFlush ==
    /\ InitFlush
    /\ [][NextFlush]_vars
    /\ WF_vars(FlushWake) /\ WF_vars(FlushAcquire) /\ WF_vars(FlushDone)

\* C34: periodic flush.  With the flush-back worker scheduled fairly, time
\* and again every sector has on disk the bytes most recently written to it
\* through the cache, whatever the clients do; and the worker holds
\* buffer_cache_lock only between lock_acquire and lock_release of
\* buffer_cache_done, never in timer_sleep.
C34_FlushLiveness ==
    /\ [](threads[FlushWorker].pc \in {"timer_sleep", "lock_acquire"}
            => locks["buffer_cache_lock"] # HeldBy(FlushWorker))
    /\ \A s \in CacheSectors : []<>(disk[s] = written[s])

\* The worker is back in timer_sleep after a turn that wrote a sector no
\* client had caused to reach the disk, and the disk is up to date.
C34_Witness ==
    /\ threads[FlushWorker].pc = "timer_sleep"
    /\ threads[FlushWorker].wrote # {}
    /\ locks["buffer_cache_lock"] = Unheld
    /\ \A s \in CacheSectors : disk[s] = written[s]
    /\ \E s \in CacheSectors : written[s] # Zeros

---------------------------------------------------------------------------
(* The mutexes.  A process is a thread that sets up and touches its pages  *)
(* and calls write (fd, buffer, PGSIZE) with a buffer of one page.         *)
(* syscall_write probes the buffer (validate_ptr_read), takes filesys_lock *)
(* and calls file_write; inode_write_at hands the caller's buffer to the   *)
(* buffer cache, which copies from it with buffer_cache_lock held.  A page *)
(* fault in that copy runs the fault handler on the thread that faulted:   *)
(* suppl_pt_load_page.  frame_table_lock and swap_table_lock are taken and *)
(* released inside frame_alloc, frame_remove, swap_in, swap_out and        *)
(* swap_remove, which are parts of one step here, so between steps they    *)
(* are free; read_ahead_lock is taken by buffer_cache_read_ahead, which    *)
(* nothing calls, and by the read-ahead worker, which stays in sema_down.  *)
(* The file the processes write is the mapped file, from its first page.   *)

MaxLockOps == 9

LockNames == {"filesys_lock", "frame_table_lock", "swap_table_lock",
              "buffer_cache_lock", "read_ahead_lock"}

IdleThread == [pc |-> "user", upage |-> NULL]

InitLocks ==
    /\ VmTables
    /\ ProcIdle
    /\ filesys_lock = NoThread
    /\ opener = <<>>
    /\ locks = [l \in LockNames |-> Unheld]
    /\ threads = [p \in Procs |-> IdleThread]

InUser(p) == threads[p].pc = "user" /\ vmops < MaxLockOps

\* The lock a thread is in lock_acquire for, or "none".
Wants(p) ==
    CASE threads[p].pc = "lock_acquire filesys_lock" -> "filesys_lock"
      [] threads[p].pc \in {"lock_acquire buffer_cache_lock",
                            "fault: lock_acquire buffer_cache_lock"}
                                                 -> "buffer_cache_lock"
      [] OTHER -> "none"

LockSetupStack(p, u) == InUser(p) /\ SetupStack(p, u)

LockLoadSegment(p, u, writable) == InUser(p) /\ LoadSegment(p, u, writable)

\* syscall_mmap and syscall_munmap hold filesys_lock from start to end.
LockMmap(p) == InUser(p) /\ locks["filesys_lock"] = Unheld /\ Mmap(p)

LockMunmap(p) == InUser(p) /\ locks["filesys_lock"] = Unheld /\ Munmap(p)

\* A page fault in user mode: suppl_pt_load_page; the file_read of a
\* PAGE_FILE entry goes through the buffer cache.
LockFaultBegin(p, u) == InUser(p) /\ LoadPageBegin(p, u)

LockFaultFinish(p) ==
    /\ threads[p].pc = "user"
    /\ loading[p] # NoLoad /\ loading[p] # Exiting
    /\ sptes[p][loading[p].upage].type = "PAGE_FILE"
          => locks["buffer_cache_lock"] = Unheld
    /\ LoadPageFinish(p)

LockUserWrite(p, u, v) == InUser(p) /\ UserWrite(p, u, v)

LockRest ==
    UNCHANGED <<cacheVars, obsVars, inodeVars, filesys_lock, opener,
                procVars, mmaps, vmlog>>

\* syscall_write: validate_ptr_read reads a byte of the buffer's page,
\* which is present (a page that is not has been loaded by the fault).
SysWriteValidate(p, u) ==
    /\ InUser(p)
    /\ loading[p] = NoLoad
    /\ pagedir[p][u].present
    /\ pagedir' = [pagedir EXCEPT ![p][u].accessed = TRUE]
    /\ threads' = [threads EXCEPT
                     ![p] = [pc |-> "lock_acquire filesys_lock",
                             upage |-> u]]
    /\ UNCHANGED <<sptes, frame_table, frame_table_pos, user_pool, frames,
                   swap_table, swap_disk, mfile, loading, vmops, locks>>
    /\ LockRest

\* lock_acquire (&filesys_lock) of syscall_write; the file is open.
SysWriteLockFs(p) ==
    /\ threads[p].pc = "lock_acquire filesys_lock"
    /\ locks["filesys_lock"] = Unheld
    /\ locks' = [locks EXCEPT !["filesys_lock"] = HeldBy(p)]
    /\ threads' = [threads EXCEPT
                     ![p].pc = "lock_acquire buffer_cache_lock"]
    /\ UNCHANGED <<vmVars>>
    /\ UNCHANGED <<cacheVars, obsVars, inodeVars, filesys_lock, opener,
                   procVars>>

\* file_write, inode_write_at, buffer_cache_write: lock_acquire
\* (&buffer_cache_lock) and the fetch of the entry.
SysWriteLockBc(p) ==
    /\ threads[p].pc = "lock_acquire buffer_cache_lock"
    /\ locks["buffer_cache_lock"] = Unheld
    /\ locks' = [locks EXCEPT !["buffer_cache_lock"] = HeldBy(p)]
    /\ threads' = [threads EXCEPT ![p].pc = "memcpy"]
    /\ UNCHANGED <<vmVars>>
    /\ UNCHANGED <<cacheVars, obsVars, inodeVars, filesys_lock, opener,
                   procVars>>

\* memcpy (entry->data, addr, ...) from a buffer that is present, then
\* lock_release of buffer_cache_lock and of filesys_lock.
SysWriteCopy(p) ==
    LET u == threads[p].upage
    IN  /\ threads[p].pc = "memcpy"
        /\ pagedir[p][u].present
        /\ pagedir' = [pagedir EXCEPT ![p][u].accessed = TRUE]
        /\ mfile' = [mfile EXCEPT ![1] = frames[pagedir[p][u].kpage]]
        /\ locks' = [locks EXCEPT !["buffer_cache_lock"] = Unheld,
                                  !["filesys_lock"] = Unheld]
        /\ threads' = [threads EXCEPT ![p] = IdleThread]
        /\ vmops' = vmops + 1
        /\ UNCHANGED <<sptes, frame_table, frame_table_pos, user_pool,
                       frames, swap_table, swap_disk, loading>>
        /\ LockRest

\* The buffer's page is not present when memcpy reads it: the page fault
\* runs suppl_pt_load_page, here up to the return of frame_alloc.  A load
\* that fails ends the process, which holds both locks.
SysWriteFault(p) ==
    LET u == threads[p].upage
    IN  /\ threads[p].pc = "memcpy"
        /\ ~pagedir[p][u].present
        /\ loading[p] = NoLoad
        /\ \E a \in {suppl_pt_load_page(VmSt, p, u)} :
              /\ SetVm(a.vs)
              /\ loading' = IF a.kpage = NULL THEN loading
                            ELSE [loading EXCEPT
                                    ![p] = [upage |-> u, kpage |-> a.kpage]]
              /\ threads' = [threads EXCEPT
                               ![p].pc = IF a.kpage = NULL THEN "killed"
                                         ELSE "fault"]
        /\ vmops' = vmops + 1
        /\ UNCHANGED <<cacheVars, obsVars, free_map, free_map_file,
                       open_inodes, live, files, lastOp, nops, filesys_lock,
                       opener, procVars, mmaps, vmlog, locks>>

\* The rest of suppl_pt_load_page in the fault of the copy.  For a
\* PAGE_FILE entry file_read comes to buffer_cache_read and its
\* lock_acquire (&buffer_cache_lock); the other types are filled, the
\* fault returns and the copy goes on.
SysWriteFaultFill(p) ==
    LET u == threads[p].upage
    IN  /\ threads[p].pc = "fault"
        /\ IF sptes[p][u].type = "PAGE_FILE"
           THEN /\ threads' = [threads EXCEPT
                      ![p].pc = "fault: lock_acquire buffer_cache_lock"]
                /\ UNCHANGED <<sptes, pagedir, frame_table, frame_table_pos,
                               user_pool, frames, swap_table, swap_disk,
                               mfile, panicked, loading>>
           ELSE /\ SetVm(suppl_pt_load_page_fill(VmSt, p, u,
                                                 loading[p].kpage))
                /\ loading' = [loading EXCEPT ![p] = NoLoad]
                /\ threads' = [threads EXCEPT ![p].pc = "memcpy"]
        /\ vmops' = vmops + 1
        /\ UNCHANGED <<cacheVars, obsVars, free_map, free_map_file,
                       open_inodes, live, files, lastOp, nops, filesys_lock,
                       opener, procVars, mmaps, vmlog, locks>>

NextLocks ==
    \/ \E p \in Procs, u \in OtherPages : LockSetupStack(p, u)
    \/ \E p \in Procs, u \in OtherPages, w \in BOOLEAN :
          LockLoadSegment(p, u, w)
    \/ \E p \in Procs : LockMmap(p)
    \/ \E p \in Procs : LockMunmap(p)
    \/ \E p \in Procs, u \in UPages : LockFaultBegin(p, u)
    \/ \E p \in Procs : LockFaultFinish(p)
    \/ \E p \in Procs, u \in UPages, v \in 1 .. MaxPageVal :
          LockUserWrite(p, u, v)
    \/ \E p \in Procs, u \in UPages : SysWriteValidate(p, u)
    \/ \E p \in Procs : SysWriteLockFs(p)
    \/ \E p \in Procs : SysWriteLockBc(p)
    \/ \E p \in Procs : SysWriteCopy(p)
    \/ \E p \in Procs : SysWriteFault(p)
    \/ \E p \in Procs : SysWriteFaultFill(p)

SpecLocks == InitLocks /\ [][NextLocks]_vars

\* The thread that holds the lock p is waiting for, or NULL.
WaitsFor(p) ==
    IF Wants(p) = "none" \/ locks[Wants(p)] = Unheld THEN NULL
    ELSE locks[Wants(p)][1]

\* The thread n steps along the chain of waiting from p.
RECURSIVE WaitChain(_, _)
WaitChain(p, n) ==
    IF n = 0 THEN p
    ELSE IF WaitChain(p, n - 1) = NULL THEN NULL
    ELSE WaitsFor(WaitChain(p, n - 1))

\* C37: deadlock freedom.  In no reachable state does a chain of threads,
\* each waiting in lock_acquire for a mutex the next one holds, lead back
\* to its first thread.
C37_NoWaitCycle ==
    \A p \in Procs : \A n \in 1 .. NumProcs : WaitChain(p, n) # p

\* A process is in lock_acquire for buffer_cache_lock, which it holds
\* itself together with filesys_lock, and the other process is in
\* lock_acquire for filesys_lock.
C37_Witness ==
    \E p \in Procs, q \in Procs :
        /\ p # q
        /\ threads[p].pc = "fault: lock_acquire buffer_cache_lock"
        /\ locks["buffer_cache_lock"] = HeldBy(p)
        /\ locks["filesys_lock"] = HeldBy(p)
        /\ threads[q].pc = "lock_acquire filesys_lock"

---------------------------------------------------------------------------
(* mmap and munmap of a file of the inode store.  One process maps the     *)
(* file it has open, stores into the pages and unmaps.  A page of the      *)
(* mapping is PageWords words of the file: PGSIZE / DISK_SECTOR_SIZE is 8  *)
(* in the code and PGSIZE here.  mmaps is the process's mapping: the inode *)
(* of the reopened file, its size, and for every page read_bytes, whether  *)
(* it is loaded and dirty, and its content.                                *)

PageWords   == PGSIZE * DISK_SECTOR_SIZE
MaxUnmapOps == 4

\* The length of the file that is mapped, in words.
UnmapLens == 1 .. 2 * PageWords

NotMapped == [mapped |-> FALSE]

\* The formatted volume with a file of LEN words on it, opened once.
WithFile(len) ==
    Let(Formatted, LAMBDA f :
    Let(free_map_allocate(f.st, 1), LAMBDA a :
    Let(inode_create(a.st, a.sector, len, Zeros), LAMBDA c :
    Let(inode_open(c.st, f.list, a.sector), LAMBDA o :
    [st |-> o.st, list |-> o.list, id |-> o.id, sector |-> a.sector]))))

InitUnmap ==
    \E len \in UnmapLens : \E w \in {WithFile(len)} :
        /\ buffer_cache = w.st.bc
        /\ buffer_cache_pos = w.st.pos
        /\ disk = w.st.disk
        /\ free_map = w.st.fm
        /\ free_map_file = w.st.fmfile
        /\ panicked = FALSE
        /\ open_inodes = w.list
        /\ live = {FREE_MAP_SECTOR, ROOT_DIR_SECTOR, w.sector}
        /\ files = [h \in {1} |-> [inode |-> w.id, denied |-> FALSE]]
        /\ lastOp = NoOp
        /\ nops = 0
        /\ read_ahead_list = <<>>
        /\ read_ahead_sema = sema_init(0)
        /\ written = [s \in Sectors |-> Zeros]
        /\ lastRead = NoRead
        /\ sptes = {}
        /\ pagedir = <<>>
        /\ frame_table = <<>>
        /\ frame_table_pos = 0
        /\ user_pool = {}
        /\ frames = <<>>
        /\ swap_table = <<>>
        /\ swap_disk = <<>>
        /\ mfile = <<>>
        /\ mmaps = NotMapped
        /\ loading = <<>>
        /\ vmlog = <<>>
        /\ vmops = 0
        /\ OpenIdle /\ ProcIdle

UnmapRest ==
    UNCHANGED <<read_ahead_list, read_ahead_sema, written, lastRead, live,
                files, openVars, procVars, sptes, pagedir, frame_table,
                frame_table_pos, user_pool, frames, swap_table, swap_disk,
                mfile, loading, vmlog, vmops>>

\* syscall_mmap, the loop that installs the pages: read_bytes of the page
\* at OFS of a file of SIZE bytes.
mmap_read_bytes(size, ofs) ==
    IF ofs + PageWords < size THEN PageWords ELSE size - ofs

\* syscall_mmap (fd, addr) of the open file: file_reopen, file_length, and
\* a page entry every PGSIZE bytes of the file.
UnmapMmap ==
    LET id   == files[1].inode
        size == inode_length(id)
    IN  /\ ~panicked /\ nops < MaxUnmapOps
        /\ ~mmaps.mapped
        /\ size # 0
        /\ open_inodes' = inode_reopen(open_inodes, id)
        /\ mmaps' =
              [mapped |-> TRUE, id |-> id, size |-> size,
               used |-> UsedBits(free_map),
               pages |-> [k \in 1 .. (size + PageWords - 1) \div PageWords |->
                            [read_bytes |->
                                mmap_read_bytes(size, (k - 1) * PageWords),
                             loaded |-> FALSE, dirty |-> FALSE,
                             data |-> <<>>]]]
        /\ lastOp' = [op |-> "mmap", id |-> id]
        /\ nops' = nops + 1
        /\ UNCHANGED <<cacheVars, free_map, free_map_file, panicked>>
        /\ UnmapRest

\* The process stores v in word W of page K.  A page that is not loaded is
\* loaded first (suppl_pt_load_page: file_read of read_bytes, the rest of
\* the page zero).
UnmapStore(k, w, v) ==
    LET id  == files[1].inode
        pg  == mmaps.pages[k]
        rd  == inode_read_at(FsSt, InodeOf(open_inodes, id).data,
                             pg.read_bytes, (k - 1) * PageWords)
        old == IF pg.loaded THEN pg.data
               ELSE [j \in 1 .. PageWords |->
                        IF j <= Len(rd.out) THEN rd.out[j] ELSE 0]
    IN  /\ ~panicked /\ nops < MaxUnmapOps
        /\ mmaps.mapped
        /\ k \in DOMAIN mmaps.pages
        /\ SetFs(IF pg.loaded THEN FsSt ELSE rd.st)
        /\ mmaps' = [mmaps EXCEPT
                       !.pages[k] = [pg EXCEPT !.loaded = TRUE,
                                               !.dirty = TRUE,
                                               !.data = [old EXCEPT ![w] = v]]]
        /\ lastOp' = [op |-> "store", page |-> k]
        /\ nops' = nops + 1
        /\ UNCHANGED open_inodes
        /\ UnmapRest

\* mmap_unmap_item, its loop from page K on: a loaded page that is dirty
\* is written with file_write_at (mmap->file, pte->kpage, PGSIZE, ofs).
\* The result is [st, ino], the inode as the writes leave it.
RECURSIVE UnmapWriteBack(_, _, _, _)
UnmapWriteBack(st, ino, pages, k) ==
    IF k > Len(pages) THEN [st |-> st, ino |-> ino]
    ELSE IF pages[k].loaded /\ pages[k].dirty
    THEN Let(inode_write_at(st, ino, pages[k].data, (k - 1) * PageWords,
                            Zeros), LAMBDA w :
             UnmapWriteBack(w.st, [ino EXCEPT !.data = w.d], pages, k + 1))
    ELSE UnmapWriteBack(st, ino, pages, k + 1)

\* syscall_munmap: mmap_unmap_item, then file_close of the reopened file.
UnmapMunmap ==
    LET id == mmaps.id
        k  == PosOf(open_inodes, id)
    IN  /\ ~panicked /\ nops < MaxUnmapOps
        /\ mmaps.mapped
        /\ \E wb \in {UnmapWriteBack(FsSt, open_inodes[k], mmaps.pages, 1)} :
           \E c \in {inode_close(wb.st, [open_inodes EXCEPT ![k] = wb.ino],
                                 id)} :
              /\ SetFs(c.st)
              /\ open_inodes' = c.list
              /\ lastOp' = [op |-> "munmap", id |-> id,
                            size |-> mmaps.size,
                            length |-> wb.ino.data.length,
                            usedAtMmap |-> mmaps.used,
                            used |-> UsedBits(c.st.fm),
                            dirty |-> {j \in DOMAIN mmaps.pages :
                                          mmaps.pages[j].dirty}]
        /\ mmaps' = NotMapped
        /\ nops' = nops + 1
        /\ UnmapRest

NextUnmap ==
    \/ UnmapMmap
    \/ \E k \in 1 .. 2, w \in {1, PageWords}, v \in Words : UnmapStore(k, w, v)
    \/ UnmapMunmap

SpecUnmap == InitUnmap /\ [][NextUnmap]_vars

\* C39: munmap preserves the file length.  After mmap of a file of length
\* L, stores into its pages and munmap, the file is L long and as many
\* sectors are in use as at the mmap.
C39_MunmapKeepsLength ==
    (lastOp.op = "munmap" /\ ~panicked) =>
        /\ lastOp.length = lastOp.size
        /\ lastOp.used = lastOp.usedAtMmap

\* A file whose length is not a multiple of the page has been unmapped
\* with its last page dirty: it is longer than it was, and more sectors
\* are in use.
C39_Witness ==
    /\ lastOp.op = "munmap"
    /\ ~panicked
    /\ lastOp.size % PageWords # 0
    /\ (lastOp.size + PageWords - 1) \div PageWords \in lastOp.dirty
    /\ lastOp.length = PageWords * ((lastOp.size + PageWords - 1) \div PageWords)
    /\ lastOp.used > lastOp.usedAtMmap

=============================================================================
